---- MODULE Spec2Model ----
(***************************************************************************)
(* Model of emd_hitme: the hitbox sequence (timeline) state machine of     *)
(* src/src/hitboxes.rs and the collision-to-hit pipeline of src/src/lib.rs *)
(*                                                                         *)
(* Time is counted in whole units (the f32 seconds of the source become    *)
(* naturals).  Option<T> is a sequence: <<>> is None, <<x>> is Some(x).    *)
(* A HashMap is a function whose DOMAIN is the set of keys.  Entities are  *)
(* strings.  Frame indexes are 0-based as in the source, so the frame at   *)
(* index i of a Vec modelled as a sequence fs is fs[i + 1].                *)
(***************************************************************************)
EXTENDS Naturals, Integers, Sequences, FiniteSets, TLC

VARIABLES
    hitbox_sets,   \* entity -> HitboxSet component
    hitbox,        \* entity -> Hitbox component
    hurtbox_sets,  \* entity -> HurtboxSet component
    hurtbox,       \* entity -> Hurtbox component
    config,        \* the HitmeConfig resource
    last_call,     \* history: the last operation, its arguments and what it emitted
    visit,         \* history: per HitboxSet, what the frame visit under way has emitted to
                   \* the callers of progress_active_sequence
    dispatch,      \* history: the dispatch steps of the last tick, per hitbox
    since_hit,     \* history: per hitbox and owner, the decay deltas summed since the
                   \* last on-hit call, forgotten when the hitbox is refreshed
    tracker        \* entity -> SimpleTranslationTracker component

vars == <<hitbox_sets, hitbox, hurtbox_sets, hurtbox, config, last_call, visit, dispatch,
         since_hit, tracker>>

(***************************************************************************)
(* Bounds of the model.                                                    *)
(***************************************************************************)
MaxDelta == 3        \* the deltas of one call are 0..MaxDelta
MaxDelay == 2        \* the configured frame delays are 0..MaxDelay
MaxDuration == 2     \* the configured frame durations are 0..MaxDuration
MaxTagDelay == 1     \* the configured tag delays are 0..MaxTagDelay
MaxElapsed == 5      \* no elapsed-time counter is driven beyond this value
MaxCooldown == 2     \* the configured cooldowns are 0..MaxCooldown
MaxLedger == 2       \* no ledger entry is driven beyond this value
MaxTickDelta == 1    \* the deltas of one tick are 0..MaxTickDelta
MaxCallbacks == 2    \* 0..MaxCallbacks on-hit callbacks are registered
MaxFilters == 1      \* 0..MaxFilters hit filters are registered
MaxTimer == 2        \* the configured one-shot thresholds are 1..MaxTimer
MaxHandlers == 2     \* at most MaxHandlers global tag handlers are registered

Deltas == 0..MaxDelta

(***************************************************************************)
(* HitboxSequenceFrame and HitboxSequenceFrameTag.                         *)
(***************************************************************************)
Tag(name, delay, triggered) ==
    [name |-> name, delay |-> delay, data |-> "data_" \o name, triggered |-> triggered]

Frame(duration, delay, name, names, tags, active) ==
    [duration |-> duration, delay |-> delay, name |-> name, names |-> names,
     tags |-> tags, active |-> active]

\* HitboxSequenceFrame::reset
reset(f) ==
    [f EXCEPT !.tags = [i \in DOMAIN f.tags |-> [f.tags[i] EXCEPT !.triggered = FALSE]],
              !.active = FALSE]

Resolve(hitboxes, n) == IF n \in DOMAIN hitboxes THEN <<hitboxes[n]>> ELSE <<>>

RECURSIVE ResolveAll(_, _)
ResolveAll(hitboxes, ns) ==
    IF ns = <<>> THEN <<>>
    ELSE Resolve(hitboxes, Head(ns)) \o ResolveAll(hitboxes, Tail(ns))

get_hitboxes_of_name(f, hitboxes) ==
    IF f.name # <<>> THEN Resolve(hitboxes, f.name[1]) ELSE <<>>

\* HitboxSequenceFrame::get_hitboxes: `name` first, then `names` in order;
\* a name that is no key of the map contributes nothing.
get_hitboxes(f, hitboxes) ==
    (IF f.name # <<>> THEN Resolve(hitboxes, f.name[1]) ELSE <<>>)
    \o (IF f.names # <<>> THEN ResolveAll(hitboxes, f.names[1]) ELSE <<>>)

(***************************************************************************)
(* HitboxSequenceEvent.                                                    *)
(***************************************************************************)
HitboxActivated(e) == [type |-> "HitboxActivated", hitbox |-> e]
HitboxDeactivated(e) == [type |-> "HitboxDeactivated", hitbox |-> e]
TagTriggered(name, data) == [type |-> "TagTriggered", name |-> name, data |-> data]
Finished == [type |-> "Finished"]

MapSeq(s, Op(_)) == [i \in DOMAIN s |-> Op(s[i])]

(***************************************************************************)
(* ActiveSequenceData.                                                     *)
(***************************************************************************)
\* ActiveSequenceData::new
NewActiveSequenceData(name) == [name |-> name, frame |-> 0, elapsed_time |-> 0]

\* sequences.get(name).and_then(|frames| frames.get(frame)) is Some
HasFrame(sequences, name, frame) ==
    name \in DOMAIN sequences /\ frame < Len(sequences[name])

get_current_active_hitboxes(self, sequences, hitboxes) ==
    IF HasFrame(sequences, self.name, self.frame)
    THEN get_hitboxes(sequences[self.name][self.frame + 1], hitboxes)
    ELSE <<>>

is_current_frame_active_never(self, sequences) == FALSE

is_current_frame_active(self, sequences) ==
    IF HasFrame(sequences, self.name, self.frame)
    THEN sequences[self.name][self.frame + 1].active
    ELSE FALSE

SetFrameActive(self, sequences, b) ==
    IF HasFrame(sequences, self.name, self.frame)
    THEN [sequences EXCEPT ![self.name][self.frame + 1].active = b]
    ELSE sequences

activate_current_frame(self, sequences, hitboxes, events) ==
    [events |-> events \o MapSeq(get_current_active_hitboxes(self, sequences, hitboxes),
                                 HitboxActivated),
     sequences |-> SetFrameActive(self, sequences, TRUE)]

deactivate_current_frame(self, sequences, hitboxes, events) ==
    [events |-> events \o MapSeq(get_current_active_hitboxes(self, sequences, hitboxes),
                                 HitboxDeactivated),
     sequences |-> SetFrameActive(self, sequences, FALSE)]

reset_current_frame(self, sequences) ==
    IF HasFrame(sequences, self.name, self.frame)
    THEN [sequences EXCEPT ![self.name][self.frame + 1] = reset(@)]
    ELSE sequences

get_sequence_frame_count_less_one(sequences, name) ==
    IF name \in DOMAIN sequences /\ Len(sequences[name]) > 0
    THEN <<Len(sequences[name]) - 1>> ELSE <<>>

get_sequence_frame_count(sequences, name) ==
    IF name \in DOMAIN sequences THEN <<Len(sequences[name])>> ELSE <<>>

\* The loop over frame.tags of progress: a tag not yet triggered whose delay
\* (after the frame's own) has elapsed is marked and emits TagTriggered.
trigger_tags_refiring(tags, i, elapsed_time, delay) ==
    LET due == {k \in DOMAIN tags : k >= i /\ elapsed_time >= tags[k].delay + delay}
        Due(t) == elapsed_time >= t.delay + delay
        fired == SelectSeq(SubSeq(tags, i, Len(tags)), Due)
    IN  [tags |-> [k \in DOMAIN tags |->
                     IF k \in due THEN [tags[k] EXCEPT !.triggered = TRUE] ELSE tags[k]],
         events |-> [k \in DOMAIN fired |-> TagTriggered(fired[k].name, fired[k].data)]]

RECURSIVE trigger_tags(_, _, _, _)
trigger_tags(tags, i, elapsed_time, delay) ==
    IF i > Len(tags) THEN [tags |-> tags, events |-> <<>>]
    ELSE LET tag == tags[i]
             fire == elapsed_time >= tag.delay + delay /\ ~tag.triggered
             rest == trigger_tags(IF fire THEN [tags EXCEPT ![i].triggered = TRUE] ELSE tags,
                                  i + 1, elapsed_time, delay)
         IN  [tags |-> rest.tags,
              events |-> (IF fire THEN <<TagTriggered(tag.name, tag.data)>> ELSE <<>>)
                         \o rest.events]

\* The element of a singleton set.  In {F(x) : x \in {e}} the value of e is
\* computed once and F is applied to it: the let-bindings of the source are
\* written this way where a later statement reads an earlier result.
Only(S) == CHOOSE v \in S : TRUE

\* The end of progress, after the tags (seqs_t, ev_t are the sequences and
\* the events so far): if self.elapsed_time >= frame.duration + delay the
\* frame is deactivated and reset, the cursor moves on and reports Finished
\* past the last frame.
progress_frame_end(s1, seqs_t, ev_t, hitboxes, delay) ==
    IF s1.elapsed_time >= seqs_t[s1.name][s1.frame + 1].duration + delay
    THEN LET d == deactivate_current_frame(s1, seqs_t, hitboxes, ev_t)
             s2 == [s1 EXCEPT !.elapsed_time = 0]
             seqs_r == reset_current_frame(s2, d.sequences)
             s3 == [s2 EXCEPT !.frame = @ + 1]
             count == get_sequence_frame_count(seqs_r, s3.name)
         IN  [self |-> s3, sequences |-> seqs_r,
              events |-> IF count # <<>> /\ s3.frame >= count[1]
                         THEN Append(d.events, Finished) ELSE d.events]
    ELSE [self |-> s1, sequences |-> seqs_t, events |-> ev_t]

\* progress once the frame's tags have been looked at (t is what
\* trigger_tags returned; a what the activation step left).
progress_after_tags(s1, a, t, hitboxes, delay) ==
    progress_frame_end(s1, [a.sequences EXCEPT ![s1.name][s1.frame + 1].tags = t.tags],
                       a.events \o t.events, hitboxes, delay)

\* progress after the activation step (a): nothing more without a frame
\* under the cursor, else the tags and the end of the frame.
progress_after_activation(s1, a, hitboxes, delay) ==
    IF ~HasFrame(a.sequences, s1.name, s1.frame)
    THEN [self |-> s1, sequences |-> a.sequences, events |-> a.events]
    ELSE Only({progress_after_tags(s1, a, t, hitboxes, delay) :
                 t \in {trigger_tags(a.sequences[s1.name][s1.frame + 1].tags, 1,
                                     s1.elapsed_time, delay)}})

\* progress after self.elapsed_time += delta (s1)
progress_after_delta(s1, sequences, hitboxes, delay) ==
    Only({progress_after_activation(s1, a, hitboxes, delay) :
            a \in {IF s1.elapsed_time >= delay /\ ~is_current_frame_active(s1, sequences)
                   THEN activate_current_frame(s1, sequences, hitboxes, <<>>)
                   ELSE [events |-> <<>>, sequences |-> sequences]}})

\* ActiveSequenceData::progress: the cursor, the sequences and the events after it.
progress(self, sequences, hitboxes, delta) ==
    Only({progress_after_delta(s1, sequences, hitboxes, delay) :
            s1 \in {[self EXCEPT !.elapsed_time = @ + delta]},
            delay \in {IF HasFrame(sequences, self.name, self.frame)
                       THEN sequences[self.name][self.frame + 1].delay ELSE 0}})

(***************************************************************************)
(* HitboxSet.                                                              *)
(***************************************************************************)
has_sequence(set, name) == name \in DOMAIN set.sequences

reset_sequences_of_started(set) ==
    IF set.active_sequence = <<>> THEN set
    ELSE [set EXCEPT !.sequences[set.active_sequence[1].name] = MapSeq(@, reset)]

reset_sequences(set) ==
    [set EXCEPT !.sequences = [n \in DOMAIN set.sequences |-> MapSeq(set.sequences[n], reset)]]

start_sequence_clearing(set, sequence_name) ==
    IF ~has_sequence(set, sequence_name)
    THEN [set |-> [set EXCEPT !.active_sequence = <<>>], ok |-> FALSE]
    ELSE [set |-> reset_sequences(
                     [set EXCEPT !.active_sequence = <<NewActiveSequenceData(sequence_name)>>]),
          ok |-> TRUE]

\* HitboxSet::start_sequence: the set after the call and whether it returned Ok.
start_sequence(set, sequence_name) ==
    IF ~has_sequence(set, sequence_name)
    THEN [set |-> set, ok |-> FALSE]
    ELSE [set |-> reset_sequences(
                     [set EXCEPT !.active_sequence = <<NewActiveSequenceData(sequence_name)>>]),
          ok |-> TRUE]

\* ActiveSequenceData::is_finished: the outcomes the call can have.  With a
\* frameless timeline frames.len() - 1 underflows usize: the overflow check
\* of a debug build panics, and without the check last_frame wraps to
\* usize::MAX, which no frame index equals.
is_finished(self, sequences) ==
    IF self.name \in DOMAIN sequences
    THEN LET frames == sequences[self.name]
         IN  IF Len(frames) = 0
             THEN {[panics |-> TRUE, value |-> FALSE], [panics |-> FALSE, value |-> FALSE]}
             ELSE {[panics |-> FALSE,
                    value |-> self.frame = Len(frames) - 1
                              /\ self.elapsed_time >= frames[Len(frames)].duration]}
    ELSE {[panics |-> FALSE, value |-> self.frame = 0 /\ self.elapsed_time >= 0]}

\* HitboxSet::is_current_sequence_finished: None without a cursor.
is_current_sequence_finished(set) ==
    IF set.active_sequence = <<>> THEN {[panics |-> FALSE, value |-> <<>>]}
    ELSE {[panics |-> r.panics, value |-> <<r.value>>] :
            r \in is_finished(set.active_sequence[1], set.sequences)}

\* HitboxSet::progress_active_sequence
\* The set with the cursor and the sequences that a progress call returned
\* (p), and the events of the call.
progressed(set, p) ==
    [set |-> [set EXCEPT !.active_sequence = <<p.self>>, !.sequences = p.sequences],
     events |-> p.events]

twice_progressed(set, p, q) ==
    [set |-> [set EXCEPT !.active_sequence = <<q.self>>, !.sequences = q.sequences],
     events |-> p.events \o q.events]

progressed_again(set, p) ==
    twice_progressed(set, p, progress(p.self, p.sequences, set.hitboxes, 0))

progress_active_sequence_carrying(set, delta) ==
    IF set.active_sequence = <<>> THEN [set |-> set, events |-> <<>>]
    ELSE Only({progressed_again(set, p) :
                 p \in {progress(set.active_sequence[1], set.sequences, set.hitboxes, delta)}})

progress_active_sequence(set, delta) ==
    IF set.active_sequence = <<>> THEN [set |-> set, events |-> <<>>]
    ELSE Only({progressed(set, p) :
                 p \in {progress(set.active_sequence[1], set.sequences, set.hitboxes, delta)}})

(***************************************************************************)
(* Hitbox.                                                                 *)
(***************************************************************************)
EmptyMap == [e \in {} |-> 0]

\* The default cooldown of Hitbox::from_toml, Some(1.0).
DefaultCooldown == 1

\* Hitbox::from_toml: elapsed_time 0 and an empty damaged_entities map.
NewHitbox(parent_set, active, activate_after, deactivate_after, cooldown) ==
    [active |-> active, activate_after |-> activate_after,
     deactivate_after |-> deactivate_after, elapsed_time |-> 0,
     parent_set |-> parent_set, cooldown_per_entity |-> <<cooldown>>,
     damaged_entities |-> EmptyMap]

\* Hitbox::is_one_time
is_one_time(h) == h.activate_after # <<>> \/ h.deactivate_after # <<>>

\* Hitbox::activate
activate(h) == IF h.active THEN h ELSE [h EXCEPT !.active = TRUE]

\* Hitbox::deactivate
deactivate(h) == [h EXCEPT !.active = FALSE]

\* Hitbox::refresh
refresh(h) == [h EXCEPT !.damaged_entities = EmptyMap]

can_damage_entity_always(h, other_entity) == TRUE

\* Hitbox::can_damage_entity
can_damage_entity(h, other_entity) ==
    IF other_entity \in DOMAIN h.damaged_entities
    THEN IF h.cooldown_per_entity # <<>>
         THEN h.damaged_entities[other_entity] >= h.cooldown_per_entity[1]
         ELSE TRUE
    ELSE TRUE

\* Hitbox::add_damaged_entity (through add_damaged_entities): insert(id, 0.0)
add_damaged_entity(h, entity) ==
    [h EXCEPT !.damaged_entities =
        [e \in DOMAIN @ \cup {entity} |-> IF e = entity THEN 0 ELSE @[e]]]

add_to_damaged_list_dropped(hb, hitbox_id, damaged_entity) == hb

\* add_to_damaged_list: nothing happens when hitbox_id has no Hitbox.
add_to_damaged_list(hb, hitbox_id, damaged_entity) ==
    IF hitbox_id \in DOMAIN hb
    THEN [hb EXCEPT ![hitbox_id] = add_damaged_entity(@, damaged_entity)]
    ELSE hb

\* get_hitbox_owner: hitbox -> parent_set -> HitboxSet.owner, None on a miss.
get_hitbox_owner(hb, hsets, id) ==
    IF id \in DOMAIN hb /\ hb[id].parent_set \in DOMAIN hsets
    THEN <<hsets[hb[id].parent_set].owner>> ELSE <<>>

\* get_hurtbox_owner: hurtbox -> parent_set -> HurtboxSet.owner, None on a miss.
get_hurtbox_owner(ub, usets, id) ==
    IF id \in DOMAIN ub /\ ub[id].parent_set \in DOMAIN usets
    THEN <<usets[ub[id].parent_set].owner>> ELSE <<>>

\* get_all_active_hitboxes
get_all_active_hitboxes(hb) == {id \in DOMAIN hb : hb[id].active}

get_active_hurtboxes_of_any(ub, entities) == {id \in entities : id \in DOMAIN ub}

\* get_active_hurtboxes: the entities that have a Hurtbox which is active.
get_active_hurtboxes(ub, entities) == {id \in entities : id \in DOMAIN ub /\ ub[id].active}

\* get_colliding_active_hurtboxes: the physics query, then get_active_hurtboxes.
get_colliding_active_hurtboxes(ub, colliding, id) == get_active_hurtboxes(ub, colliding[id])

refresh_hitboxes_all(hb, hsets, id) == [h \in DOMAIN hb |-> refresh(hb[h])]

\* refresh_hitboxes(world, id): the hitboxes of the HitboxSet at id, and id
\* itself when it has a Hitbox.
refresh_hitboxes(hb, hsets, id) ==
    LET ids == (IF id \in DOMAIN hsets
                THEN {hsets[id].hitboxes[n] : n \in DOMAIN hsets[id].hitboxes} ELSE {})
               \cup (IF id \in DOMAIN hb THEN {id} ELSE {})
    IN  [h \in DOMAIN hb |-> IF h \in ids THEN refresh(hb[h]) ELSE hb[h]]

(***************************************************************************)
(* hitbox_system: the three steps that precede collision resolution.       *)
(***************************************************************************)
hitbox_one_time_system_rearming(hb, delta_e) ==
    [id \in DOMAIN hb |->
        IF ~is_one_time(hb[id]) THEN hb[id]
        ELSE LET h == [hb[id] EXCEPT !.elapsed_time = @ + delta_e]
             IN  IF h.activate_after # <<>>
                 THEN IF h.elapsed_time >= h.activate_after[1]
                      THEN [activate(h) EXCEPT !.activate_after = <<h.elapsed_time + 1>>]
                      ELSE h
                 ELSE IF h.deactivate_after # <<>> /\ h.elapsed_time >= h.deactivate_after[1]
                      THEN [deactivate(h) EXCEPT !.deactivate_after = <<>>]
                      ELSE h]

hitbox_one_time_system_both(hb, delta_e) ==
    [id \in DOMAIN hb |->
        IF ~is_one_time(hb[id]) THEN hb[id]
        ELSE LET h == [hb[id] EXCEPT !.elapsed_time = @ + delta_e]
                 a == IF h.activate_after # <<>> /\ h.elapsed_time >= h.activate_after[1]
                      THEN [activate(h) EXCEPT !.activate_after = <<>>] ELSE h
             IN  IF a.deactivate_after # <<>> /\ a.elapsed_time >= a.deactivate_after[1]
                 THEN [deactivate(a) EXCEPT !.deactivate_after = <<>>]
                 ELSE a]

hitbox_one_time_system_refreshing(hb, delta_e) ==
    [id \in DOMAIN hb |->
        IF ~is_one_time(hb[id]) THEN hb[id]
        ELSE LET h == [hb[id] EXCEPT !.elapsed_time = @ + delta_e]
             IN  IF h.activate_after # <<>>
                 THEN IF h.elapsed_time >= h.activate_after[1]
                      THEN [activate(h) EXCEPT !.activate_after = <<>>]
                      ELSE h
                 ELSE IF h.deactivate_after # <<>> /\ h.elapsed_time >= h.deactivate_after[1]
                      THEN [refresh(deactivate(h)) EXCEPT !.deactivate_after = <<>>]
                      ELSE h]

\* hitbox_one_time_system, every entity being given delta_e.
hitbox_one_time_system(hb, delta_e) ==
    [id \in DOMAIN hb |->
        IF ~is_one_time(hb[id]) THEN hb[id]
        ELSE LET h == [hb[id] EXCEPT !.elapsed_time = @ + delta_e]
             IN  IF h.activate_after # <<>>
                 THEN IF h.elapsed_time >= h.activate_after[1]
                      THEN [activate(h) EXCEPT !.activate_after = <<>>]
                      ELSE h
                 ELSE IF h.deactivate_after # <<>> /\ h.elapsed_time >= h.deactivate_after[1]
                      THEN [deactivate(h) EXCEPT !.deactivate_after = <<>>]
                      ELSE h]

hitbox_damaged_entity_delta_system_of_active(hb, delta) ==
    [id \in DOMAIN hb |->
        IF hb[id].active
        THEN [hb[id] EXCEPT !.damaged_entities = [e \in DOMAIN @ |-> @[e] + delta]]
        ELSE hb[id]]

\* hitbox_damaged_entity_delta_system
hitbox_damaged_entity_delta_system(hb, delta) ==
    [id \in DOMAIN hb |->
        [hb[id] EXCEPT !.damaged_entities = [e \in DOMAIN @ |-> @[e] + delta]]]

\* The first loop of hitbox_sequence_system on one HitboxSet: progress the
\* active sequence and clear it on Finished.
\* HitboxSequenceEvent::Finished => hitbox_set.active_sequence = None, on
\* the result r of progress_active_sequence.
clear_finished_never(r) == r

\* HitboxSequenceEvent::Finished => hitbox_set.active_sequence = None
clear_finished(r) ==
    [set |-> IF \E i \in DOMAIN r.events : r.events[i] = Finished
             THEN [r.set EXCEPT !.active_sequence = <<>>] ELSE r.set,
     events |-> r.events]

sequence_step(set, delta_e) ==
    IF set.active_sequence = <<>> THEN [set |-> set, events |-> <<>>]
    ELSE Only({clear_finished(r) : r \in {progress_active_sequence(set, delta_e)}})

EventHitboxes(events, type) == {events[i].hitbox : i \in {j \in DOMAIN events : events[j].type = type}}

apply_sequence_events_without_refresh(hb, to_activate, to_deactivate) ==
    [id \in DOMAIN hb |->
        LET h1 == IF id \in to_activate THEN activate(hb[id]) ELSE hb[id]
        IN  IF id \in to_deactivate THEN deactivate(h1) ELSE h1]

apply_sequence_events_deactivating_first(hb, to_activate, to_deactivate) ==
    [id \in DOMAIN hb |->
        LET h1 == IF id \in to_deactivate THEN refresh(deactivate(hb[id])) ELSE hb[id]
        IN  IF id \in to_activate THEN activate(h1) ELSE h1]

\* The last two loops of hitbox_sequence_system: every to_activate hitbox is
\* activated, then every to_deactivate hitbox is deactivated and refreshed.
apply_sequence_events(hb, to_activate, to_deactivate) ==
    [id \in DOMAIN hb |->
        LET h1 == IF id \in to_activate THEN activate(hb[id]) ELSE hb[id]
        IN  IF id \in to_deactivate THEN refresh(deactivate(h1)) ELSE h1]

\* hitbox_sequence_system: the sets and hitboxes after it, and each set's events.
\* The sets, the hitboxes and the events of hitbox_sequence_system, given
\* the result steps[id] of the first loop on each HitboxSet.
after_sequence_steps(hb, steps) ==
    [hitbox_sets |-> [id \in DOMAIN steps |-> steps[id].set],
     hitbox |-> apply_sequence_events(
                   hb,
                   UNION {EventHitboxes(steps[id].events, "HitboxActivated") :
                            id \in DOMAIN steps},
                   UNION {EventHitboxes(steps[id].events, "HitboxDeactivated") :
                            id \in DOMAIN steps}),
     events |-> [id \in DOMAIN steps |-> steps[id].events]]

hitbox_sequence_system(hb, hsets, delta_e) ==
    after_sequence_steps(hb, [id \in DOMAIN hsets |-> sequence_step(hsets[id], delta_e)])

\* tag_triggers.push((name, id, data)): the TagTriggered events of the sets,
\* the sets taken in the order `order` of the HitboxSet query; the entity
\* pushed with a tag is the entity that holds the HitboxSet.
RECURSIVE tag_triggers(_, _)
tag_triggers(events, order) ==
    IF order = <<>> THEN <<>>
    ELSE LET id == Head(order)
             tags == SelectSeq(events[id], LAMBDA e : e.type = "TagTriggered")
         IN  [i \in DOMAIN tags |->
                 [tag |-> tags[i].name, hitbox_set_owner |-> id, data |-> tags[i].data]]
             \o tag_triggers(events, Tail(order))

handlers_of_tag_specific_first(cfg, tag) ==
    (IF tag \in DOMAIN cfg.tag_handlers_by_name
     THEN <<cfg.tag_handlers_by_name[tag]>> ELSE <<>>) \o cfg.tag_handlers

\* let mut handlers = config.tag_handlers.clone(), then the handler that
\* tag_handlers_by_name holds for the tag, if any, pushed last.
handlers_of_tag(cfg, tag) ==
    cfg.tag_handlers \o (IF tag \in DOMAIN cfg.tag_handlers_by_name
                         THEN <<cfg.tag_handlers_by_name[tag]>> ELSE <<>>)

\* The second loop of hitbox_sequence_system: the handler calls it makes,
\* in order, each with its OnTagTriggerContext.
RECURSIVE tag_handler_calls(_, _)
tag_handler_calls(cfg, triggers) ==
    IF triggers = <<>> THEN <<>>
    ELSE LET t == Head(triggers)
             handlers == handlers_of_tag(cfg, t.tag)
         IN  [i \in DOMAIN handlers |->
                 [f |-> handlers[i], tag |-> t.tag,
                  hitbox_set_owner |-> t.hitbox_set_owner, data |-> t.data]]
             \o tag_handler_calls(cfg, Tail(triggers))

\* add_on_tag_trigger: config.tag_handlers.push(handler)
add_on_tag_trigger(cfg, handler) == [cfg EXCEPT !.tag_handlers = Append(@, handler)]

\* add_on_tag_trigger_by_name: config.tag_handlers_by_name.insert(tag, handler)
add_on_tag_trigger_by_name(cfg, tag, handler) ==
    [cfg EXCEPT !.tag_handlers_by_name =
        [t \in DOMAIN @ \cup {tag} |-> IF t = tag THEN handler ELSE @[t]]]

hitbox_system_without_timers(hb, hsets, delta, delta_e) ==
    hitbox_sequence_system(hitbox_damaged_entity_delta_system(hb, delta), hsets, delta_e)

\* hitbox_system
hitbox_system(hb, hsets, delta, delta_e) ==
    Only({hitbox_sequence_system(decayed, hsets, delta_e) :
            decayed \in {hitbox_damaged_entity_delta_system(timed, delta) :
                            timed \in {hitbox_one_time_system(hb, delta_e)}}})

(***************************************************************************)
(* Collision resolution and hit dispatch.                                  *)
(***************************************************************************)
same_owner_ignored(hit_owner, hurt_owner) == FALSE

\* let same_owner = hitbox_set_owner == hurtbox_set_owner
same_owner(hit_owner, hurt_owner) == hit_owner = hurt_owner

\* The unwraps of the owner lookups in the filter closure of
\* get_active_hitbox_to_active_hurtbox_collisions: the closure runs for every
\* active hurtbox that the query returns for an active hitbox, and panics
\* when the HurtboxSet of the hurtbox or the HitboxSet of the hitbox is gone.
collisions_unwrap_panics(hb, hsets, ub, usets, colliding) ==
    \E hitbox_id \in get_all_active_hitboxes(hb) :
       \E hurtbox_id \in get_colliding_active_hurtboxes(ub, colliding, hitbox_id) :
          \/ ub[hurtbox_id].parent_set \notin DOMAIN usets
          \/ hb[hitbox_id].parent_set \notin DOMAIN hsets

\* get_active_hitbox_to_active_hurtbox_collisions: for every active hitbox
\* the colliding active hurtboxes whose owner is not the hitbox's owner and
\* can be damaged by the hitbox.  (The owner lookups of this function unwrap;
\* in the worlds below every lookup succeeds.)
get_active_hitbox_to_active_hurtbox_collisions(hb, hsets, ub, usets, colliding) ==
    [hitbox_id \in get_all_active_hitboxes(hb) |->
        {hurtbox_id \in get_colliding_active_hurtboxes(ub, colliding, hitbox_id) :
            LET hurtbox_set_owner == usets[ub[hurtbox_id].parent_set].owner
                hitbox_set_owner == hsets[hb[hitbox_id].parent_set].owner
            IN  /\ ~same_owner(hitbox_set_owner, hurtbox_set_owner)
                /\ can_damage_entity(hb[hitbox_id], hurtbox_set_owner)}]

\* !hit_filter_fns.iter().any(|f| !f(ctx)): the verdict of filter k on a pair
\* is false exactly when <<k, hitbox, hurtbox>> is in `rejected`.
filters_pass_ignored(fns, rejected, hitbox_id, hurtbox_id) == TRUE

filters_pass(fns, rejected, hitbox_id, hurtbox_id) ==
    ~\E k \in DOMAIN fns : <<k, hitbox_id, hurtbox_id>> \in rejected

\* The body of on_hit_fns.iter().for_each for callback k of one
\* (hitbox, hurtbox) pair, then the callbacks after it.
RECURSIVE dispatch_fns(_, _, _, _, _, _, _, _, _)
dispatch_fns(hb, hsets, ub, usets, cfg, rejected, hitbox_id, hurtbox_id, k) ==
    IF k > Len(cfg.on_hit_fns) THEN [hitbox |-> hb, log |-> <<>>]
    ELSE
      LET hurt == get_hurtbox_owner(ub, usets, hurtbox_id)
          hit_owner == get_hitbox_owner(hb, hsets, hitbox_id)
      IN  IF hurt = <<>> \/ hit_owner = <<>>
          THEN dispatch_fns(hb, hsets, ub, usets, cfg, rejected, hitbox_id, hurtbox_id, k + 1)
          ELSE
            LET can == IF hitbox_id \in DOMAIN hb
                       THEN can_damage_entity(hb[hitbox_id], hurt[1]) ELSE FALSE
                hit == filters_pass(cfg.hit_filter_fns, rejected, hitbox_id, hurtbox_id)
                step == [hitbox |-> hitbox_id, hurtbox |-> hurtbox_id,
                         f |-> cfg.on_hit_fns[k],
                         hit_entity |-> hit_owner[1], hurt_entity |-> hurt[1],
                         can_damage |-> can, hit |-> hit, called |-> hit /\ can,
                         entry |-> IF hurt[1] \in DOMAIN hb[hitbox_id].damaged_entities
                                   THEN <<hb[hitbox_id].damaged_entities[hurt[1]]>> ELSE <<>>]
                hb2 == IF hit /\ can THEN add_to_damaged_list(hb, hitbox_id, hurt[1]) ELSE hb
                rest == dispatch_fns(hb2, hsets, ub, usets, cfg, rejected,
                                     hitbox_id, hurtbox_id, k + 1)
            IN  [hitbox |-> rest.hitbox, log |-> <<step>> \o rest.log]

\* hurtboxes.into_iter().for_each of one hitbox, in the order `order`.
RECURSIVE dispatch_hurtboxes(_, _, _, _, _, _, _, _)
dispatch_hurtboxes(hb, hsets, ub, usets, cfg, rejected, hitbox_id, order) ==
    IF order = <<>> THEN [hitbox |-> hb, log |-> <<>>]
    ELSE LET one == dispatch_fns(hb, hsets, ub, usets, cfg, rejected, hitbox_id, Head(order), 1)
             rest == dispatch_hurtboxes(one.hitbox, hsets, ub, usets, cfg, rejected,
                                        hitbox_id, Tail(order))
         IN  [hitbox |-> rest.hitbox, log |-> one.log \o rest.log]

\* collisions.into_iter().for_each: a dispatch step of one hitbox reads and
\* writes only that hitbox's ledger, so each hitbox is dispatched on its own;
\* orders[h] is the order in which the Vec of h lists its hurtboxes.
dispatch_collisions(hb, hsets, ub, usets, cfg, rejected, orders) ==
    LET per == [h \in DOMAIN orders |->
                  dispatch_hurtboxes(hb, hsets, ub, usets, cfg, rejected, h, orders[h])]
    IN  [hitbox |-> [h \in DOMAIN hb |-> IF h \in DOMAIN orders THEN per[h].hitbox[h] ELSE hb[h]],
         log |-> [h \in DOMAIN orders |-> per[h].log]]

\* activate_hitbox_sequence(world, id, sequence): start_sequence on the
\* HitboxSet that id holds, if it holds one; an Err is dropped.
activate_hitbox_sequence(hsets, id, sequence) ==
    IF id \in DOMAIN hsets
    THEN [hsets EXCEPT ![id] = start_sequence(@, sequence).set]
    ELSE hsets

\* The registered OnTagTriggerFn functions that write to the world: the
\* function 21 calls activate_hitbox_sequence(world, ctx.hitbox_set_owner,
\* "jab"); every other function only reads.
StartedBy == [f \in {21} |-> "jab"]

\* f(emd, world, ctx) for one handler call c: the HitboxSets after it.
call_tag_handler(hsets, c) ==
    IF c.f \in DOMAIN StartedBy
    THEN activate_hitbox_sequence(hsets, c.hitbox_set_owner, StartedBy[c.f])
    ELSE hsets

\* The second loop of hitbox_sequence_system run on the world: the
\* HitboxSets after the calls, and for each call the HitboxSets and the
\* active hitboxes that the world held when it was made.
RECURSIVE run_tag_handlers(_, _, _)
run_tag_handlers(hsets, hb, calls) ==
    IF calls = <<>> THEN [hitbox_sets |-> hsets, seen |-> <<>>]
    ELSE LET rest == run_tag_handlers(call_tag_handler(hsets, Head(calls)), hb, Tail(calls))
         IN  [hitbox_sets |-> rest.hitbox_sets,
              seen |-> <<[call |-> Head(calls), hitbox_sets |-> hsets,
                          active |-> get_all_active_hitboxes(hb)]>> \o rest.seen]

hitbox_sequence_system_applying_first(hb, hsets, cfg, delta_e, order) ==
    LET WithHandlers(sys) ==
            LET ran == run_tag_handlers(sys.hitbox_sets, sys.hitbox,
                                        tag_handler_calls(cfg, tag_triggers(sys.events, order)))
            IN  [hitbox_sets |-> ran.hitbox_sets, hitbox |-> sys.hitbox,
                 events |-> sys.events, seen |-> ran.seen]
    IN  Only({WithHandlers(sys) : sys \in {hitbox_sequence_system(hb, hsets, delta_e)}})

\* hitbox_sequence_system with handlers that write to the world.  The first
\* loop advances every HitboxSet, the second calls the handlers on the
\* world as the first loop left it (the hitboxes still as hb), the last two
\* apply the events to the hitboxes; the handlers write HitboxSets only and
\* the last two loops write hitboxes only.
hitbox_sequence_system_calling(hb, hsets, cfg, delta_e, order) ==
    LET WithHandlers(sys) ==
            LET ran == run_tag_handlers(sys.hitbox_sets, hb,
                                        tag_handler_calls(cfg, tag_triggers(sys.events, order)))
            IN  [hitbox_sets |-> ran.hitbox_sets, hitbox |-> sys.hitbox,
                 events |-> sys.events, seen |-> ran.seen]
    IN  Only({WithHandlers(sys) : sys \in {hitbox_sequence_system(hb, hsets, delta_e)}})

\* hitbox_system with handlers that write to the world.
hitbox_system_calling(hb, hsets, cfg, delta, delta_e, order) ==
    Only({hitbox_sequence_system_calling(decayed, hsets, cfg, delta_e, order) :
            decayed \in {hitbox_damaged_entity_delta_system(timed, delta) :
                            timed \in {hitbox_one_time_system(hb, delta_e)}}})

(***************************************************************************)
(* tracker.rs: the boxes that HitboxSet::from_toml and                     *)
(* HurtboxSet::from_toml spawn carry a SimpleTranslationTracker whose      *)
(* target is the owner.  Every entity of these worlds that holds a set has *)
(* a Transform; the transforms themselves are not part of the state.       *)
(***************************************************************************)
NewTracker(target) == [target |-> target]

Trackers(hb, ub) ==
    [id \in DOMAIN hb \cup DOMAIN ub |->
        NewTracker(IF id \in DOMAIN hb THEN hb[id].parent_set ELSE ub[id].parent_set)]

\* The entities of the world: those that hold a component.
EntitiesOf(hsets, hb, usets, ub) ==
    DOMAIN hsets \cup DOMAIN hb \cup DOMAIN usets \cup DOMAIN ub

\* tracker_system: the trackers whose target is gone (the others copy the
\* target's transform).
to_destroy(tr, entities) == {id \in DOMAIN tr : tr[id].target \notin entities}

\* World::despawn of each of ids: their components leave the world.
despawned(m, ids) == [e \in DOMAIN m \ ids |-> m[e]]

(***************************************************************************)
(* The worlds the specifications start from.                               *)
(***************************************************************************)
\* One HitboxSet on entity "A" with two hitboxes and four timelines; the
\* delays and durations of "swing" and the transient flags that the
\* configuration gives to "jab" vary; no name of "feint" is a hitbox of the set.
SeqSet(d1, t1, g, flag) ==
    [hitboxes |-> [n \in {"h1", "h2"} |-> IF n = "h1" THEN "H1" ELSE "H2"],
     owner |-> "A",
     sequences |->
        [n \in {"swing", "jab", "feint", "empty"} |->
            CASE n = "swing" ->
                    <<Frame(t1, d1, <<"h1">>, <<>>, <<Tag("fx", g, flag)>>, FALSE),
                      Frame(d1, t1, <<>>, <<(<<"h2", "ghost">>)>>, <<>>, FALSE)>>
              [] n = "jab" ->
                    <<Frame(2, 0, <<"h2">>, <<>>, <<>>, flag)>>
              [] n = "feint" ->
                    <<Frame(1, 0, <<"ghost">>, <<(<<"phantom">>)>>, <<>>, FALSE)>>
              [] OTHER -> <<>>],
     active_sequence |-> <<>>]

NoCall == [op |-> "none"]
NoVisit == [calls |-> 0, act |-> 0, deact |-> 0, tags |-> 0, finished |-> 0, activated |-> <<>>]

InitSeq ==
    /\ \E d1 \in 0..MaxDelay, t1 \in 0..MaxDuration, g \in 0..MaxTagDelay, flag \in BOOLEAN :
          hitbox_sets = [id \in {"A"} |-> SeqSet(d1, t1, g, flag)]
    /\ hitbox = [id \in {"H1", "H2"} |-> NewHitbox("A", FALSE, <<>>, <<>>, DefaultCooldown)]
    /\ hurtbox_sets = EmptyMap
    /\ hurtbox = EmptyMap
    /\ config = [on_hit_fns |-> <<>>, hit_filter_fns |-> <<>>,
                 tag_handlers |-> <<>>, tag_handlers_by_name |-> EmptyMap]
    /\ last_call = NoCall
    /\ visit = [id \in {"A"} |-> NoVisit]
    /\ dispatch = EmptyMap
    /\ since_hit = [id \in {"H1", "H2"} |-> EmptyMap]
    /\ tracker = Trackers(hitbox, hurtbox)

(***************************************************************************)
(* Operations on one HitboxSet through its public interface.               *)
(***************************************************************************)
SequenceNames == {"swing", "jab", "feint", "empty", "unknown"}

HasEvent(events, type) == \E i \in DOMAIN events : events[i].type = type
CountEvents(events, type) == Cardinality({i \in DOMAIN events : events[i].type = type})

\* The hitboxes of the events of one type, in the order of the events.
RECURSIVE HitboxesOfEvents(_, _)
HitboxesOfEvents(events, type) ==
    IF events = <<>> THEN <<>>
    ELSE (IF Head(events).type = type THEN <<Head(events).hitbox>> ELSE <<>>)
         \o HitboxesOfEvents(Tail(events), type)

\* The bookkeeping of a frame visit: how many calls of the visit emitted
\* HitboxActivated / HitboxDeactivated, which hitboxes its HitboxActivated
\* events named, and how many Finished the playback emitted.
VisitAfter(v, before, after, events) ==
    LET seen == [calls |-> 1,
                 act |-> v.act + (IF HasEvent(events, "HitboxActivated") THEN 1 ELSE 0),
                 deact |-> v.deact + (IF HasEvent(events, "HitboxDeactivated") THEN 1 ELSE 0),
                 tags |-> v.tags + CountEvents(events, "TagTriggered"),
                 finished |-> v.finished + CountEvents(events, "Finished"),
                 activated |-> v.activated \o HitboxesOfEvents(events, "HitboxActivated")]
    IN  IF after.frame # before.frame
        THEN [open |-> [NoVisit EXCEPT !.finished = seen.finished], closed |-> <<seen>>]
        ELSE [open |-> seen, closed |-> <<>>]

\* activate_hitbox_sequence(world, id, sequence): start_sequence on the
\* HitboxSet of id; an Err is dropped by the caller.
StartSequence(id, name) ==
    LET r == start_sequence(hitbox_sets[id], name)
    IN  /\ hitbox_sets' = [hitbox_sets EXCEPT ![id] = r.set]
        /\ last_call' = [op |-> "start", id |-> id, name |-> name, ok |-> r.ok,
                         before |-> hitbox_sets[id]]
        /\ visit' = IF r.ok THEN [visit EXCEPT ![id] = NoVisit] ELSE visit
        /\ UNCHANGED <<hitbox, hurtbox_sets, hurtbox, config, dispatch, since_hit, tracker>>

\* HitboxSet::progress_active_sequence(delta) called on the set of id.
ProgressActiveSequence(id, delta) ==
    LET set == hitbox_sets[id]
        r == progress_active_sequence(set, delta)
    IN  /\ set.active_sequence # <<>>
        /\ set.active_sequence[1].elapsed_time + delta <= MaxElapsed
        /\ hitbox_sets' = [hitbox_sets EXCEPT ![id] = r.set]
        /\ LET va == VisitAfter(visit[id], set.active_sequence[1],
                                r.set.active_sequence[1], r.events)
           IN  /\ visit' = [visit EXCEPT ![id] = va.open]
               /\ last_call' = [op |-> "progress", id |-> id, delta |-> delta,
                                before |-> set, events |-> r.events,
                                visit_before |-> visit[id], closed |-> va.closed]
        /\ UNCHANGED <<hitbox, hurtbox_sets, hurtbox, config, dispatch, since_hit, tracker>>

\* HitboxSet::is_current_sequence_finished called on the set of id.
IsCurrentSequenceFinished(id) ==
    /\ \E r \in is_current_sequence_finished(hitbox_sets[id]) :
          last_call' = [op |-> "is_finished", id |-> id, result |-> r,
                        before |-> hitbox_sets[id]]
    /\ UNCHANGED <<hitbox_sets, hitbox, hurtbox_sets, hurtbox, config, visit, dispatch,
                   since_hit, tracker>>

NextSeq ==
    \/ \E id \in DOMAIN hitbox_sets, name \in SequenceNames : StartSequence(id, name)
    \/ \E id \in DOMAIN hitbox_sets, delta \in Deltas : ProgressActiveSequence(id, delta)
    \/ \E id \in DOMAIN hitbox_sets : IsCurrentSequenceFinished(id)

SpecSeq == InitSeq /\ [][NextSeq]_vars

(***************************************************************************)
(* The worlds of the collision pipeline.  Entity "A" holds a HitboxSet     *)
(* whose timeline "swing" drives the hitbox H1, which the configuration    *)
(* starts active.  In the layout "solo" H1 is its only hitbox, entity "B"  *)
(* holds a HurtboxSet with the hurtbox U1, and the hurtbox U2 belongs to   *)
(* the HurtboxSet of "B" too, or to one held by "A" itself, or to one held *)
(* by a third entity "C".  In the layout "pair" the set has a second       *)
(* hitbox H2 and the world a single hurtbox U1 of "B".                     *)
(***************************************************************************)
HitSet(names) ==
    [hitboxes |-> [n \in names |-> IF n = "h1" THEN "H1" ELSE "H2"],
     owner |-> "A",
     sequences |-> [n \in {"swing"} |-> <<Frame(1, 0, <<"h1">>, <<>>, <<>>, FALSE)>>],
     active_sequence |-> <<>>]

\* Hurtbox::from_toml / HurtboxSet::from_toml: parent_set is the owner entity.
NewHurtbox(parent_set, active) == [active |-> active, parent_set |-> parent_set]

Cooldowns == {0, MaxCooldown}

InitSolo ==
    /\ hitbox_sets = [id \in {"A"} |-> HitSet({"h1"})]
    /\ \E cd \in Cooldowns : hitbox = [id \in {"H1"} |-> NewHitbox("A", TRUE, <<>>, <<>>, cd)]
    /\ \E other \in {"A", "B", "C"} :
          /\ hurtbox = [id \in {"U1", "U2"} |->
                          NewHurtbox(IF id = "U2" THEN other ELSE "B", TRUE)]
          /\ hurtbox_sets = [id \in {"B", other} |->
                               [hurtboxes |-> IF id # "B" THEN <<"U2">>
                                              ELSE IF other = "B" THEN <<"U1", "U2">>
                                              ELSE <<"U1">>,
                                owner |-> id]]

InitPair ==
    /\ hitbox_sets = [id \in {"A"} |-> HitSet({"h1", "h2"})]
    /\ \E cd \in Cooldowns :
          hitbox = [id \in {"H1", "H2"} |->
                      NewHitbox("A", TRUE, <<>>, <<>>, IF id = "H1" THEN cd ELSE DefaultCooldown)]
    /\ hurtbox = [id \in {"U1"} |-> NewHurtbox("B", TRUE)]
    /\ hurtbox_sets = [id \in {"B"} |-> [hurtboxes |-> <<"U1">>, owner |-> id]]

Init ==
    /\ InitSolo \/ InitPair
    /\ \E nc \in 0..MaxCallbacks, nf \in 0..MaxFilters :
          config = [on_hit_fns |-> [k \in 1..nc |-> k], hit_filter_fns |-> [k \in 1..nf |-> k],
                    tag_handlers |-> <<>>, tag_handlers_by_name |-> EmptyMap]
    /\ last_call = NoCall
    /\ visit = [id \in {"A"} |-> NoVisit]
    /\ dispatch = EmptyMap
    /\ since_hit = [id \in DOMAIN hitbox |-> EmptyMap]
    /\ tracker = Trackers(hitbox, hurtbox)

RECURSIVE Perms(_)
Perms(S) == IF S = {} THEN {<<>>}
            ELSE UNION {{<<x>> \o p : p \in Perms(S \ {x})} : x \in S}

\* The orders in which the Vec of each hitbox can list its hurtboxes (each
\* Vec is collected from a HashSet).
OrdersOf(collisions) ==
    LET ps == [h \in DOMAIN collisions |-> Perms(collisions[h])]
    IN  {o \in [DOMAIN collisions -> UNION {ps[h] : h \in DOMAIN collisions}] :
            \A h \in DOMAIN collisions : o[h] \in ps[h]}

\* What the filters can reject in one tick: nothing, or one pair rejected by
\* one filter.
RejectionsOf(collisions) ==
    {{}} \cup UNION {{{<<k, h, u>>} : k \in DOMAIN config.hit_filter_fns, u \in collisions[h]} :
                      h \in DOMAIN collisions}

Ledgers(hb) == [h \in DOMAIN hb |-> hb[h].damaged_entities]

\* since_hit after the decay and the refreshes of a tick's hitbox_system.
SinceAfterSystem(delta, refreshed) ==
    [h \in DOMAIN since_hit |->
        IF h \in refreshed THEN EmptyMap
        ELSE [o \in DOMAIN since_hit[h] |-> since_hit[h][o] + delta]]

\* since_hit after the on-hit calls of a dispatch log.
SinceAfterDispatch(since, log) ==
    [h \in DOMAIN since |->
        LET hit == IF h \in DOMAIN log
                   THEN {log[h][i].hurt_entity : i \in {j \in DOMAIN log[h] : log[h][j].called}}
                   ELSE {}
        IN  [o \in DOMAIN since[h] \cup hit |-> IF o \in hit THEN 0 ELSE since[h][o]]]

\* emd_hitme_system: hitbox_system, collision resolution and hit dispatch.
\* delta is config.get_delta, delta_e what get_delta_for_entity gives every
\* entity; set_order is the order of the HitboxSet query, colliding the
\* answer of the physics query for each active hitbox, rejected the pairs
\* each filter rejects, orders the iteration order of each hitbox's
\* hurtboxes.  tracker_system runs last and despawns the boxes whose
\* target is gone.
TickWith(delta, delta_e, sys, set_order, colliding, collisions, rejected, d) ==
    LET refreshed == UNION {EventHitboxes(sys.events[id], "HitboxDeactivated") :
                              id \in DOMAIN hitbox_sets}
        since == SinceAfterSystem(delta, refreshed)
        gone == to_destroy(tracker, EntitiesOf(sys.hitbox_sets, d.hitbox, hurtbox_sets, hurtbox))
    IN  /\ hitbox' = despawned(d.hitbox, gone)
        /\ hurtbox' = despawned(hurtbox, gone)
        /\ tracker' = despawned(tracker, gone)
        /\ hitbox_sets' = sys.hitbox_sets
        /\ dispatch' = d.log
        /\ since_hit' = despawned(SinceAfterDispatch(since, d.log), gone)
        /\ last_call' = [op |-> "tick", colliding |-> colliding, rejected |-> rejected,
                         resolved |-> Ledgers(sys.hitbox), collisions |-> collisions,
                         refreshed |-> refreshed, since |-> since,
                         delta |-> delta, delta_e |-> delta_e, events |-> sys.events,
                         before |-> hitbox, timed |-> hitbox_one_time_system(hitbox, delta_e),
                         active |-> {h \in DOMAIN sys.hitbox : sys.hitbox[h].active}
                                    \cup {u \in DOMAIN hurtbox : hurtbox[u].active},
                         activated |-> UNION {EventHitboxes(sys.events[id], "HitboxActivated") :
                                                id \in DOMAIN hitbox_sets},
                         tag_calls |-> tag_handler_calls(config,
                                                         tag_triggers(sys.events, set_order))]
        /\ UNCHANGED <<hurtbox_sets, config, visit>>

\* The guards that keep the counters of a tick within their bounds.
TickInBounds(delta, delta_e) ==
    /\ \A h \in DOMAIN hitbox : \A o \in DOMAIN hitbox[h].damaged_entities :
          hitbox[h].damaged_entities[o] + delta <= MaxLedger
    /\ \A h \in DOMAIN hitbox : hitbox[h].elapsed_time + delta_e <= MaxElapsed
    /\ \A id \in DOMAIN hitbox_sets : hitbox_sets[id].active_sequence # <<>> =>
          hitbox_sets[id].active_sequence[1].elapsed_time + delta_e <= MaxElapsed

\* A tick in which no owner lookup of the collision resolution panics.
Tick(delta, delta_e) ==
    /\ last_call.op # "panic"
    /\ TickInBounds(delta, delta_e)
    /\ \E sys \in {hitbox_system(hitbox, hitbox_sets, delta, delta_e)} :
       \E set_order \in Perms(DOMAIN hitbox_sets) :
       \E colliding \in [get_all_active_hitboxes(sys.hitbox) -> SUBSET DOMAIN hurtbox] :
          /\ ~collisions_unwrap_panics(sys.hitbox, sys.hitbox_sets, hurtbox, hurtbox_sets,
                                       colliding)
          /\ \E collisions \in {get_active_hitbox_to_active_hurtbox_collisions(
                                  sys.hitbox, sys.hitbox_sets, hurtbox, hurtbox_sets, colliding)} :
             \E rejected \in RejectionsOf(collisions), orders \in OrdersOf(collisions) :
             \E d \in {dispatch_collisions(sys.hitbox, sys.hitbox_sets, hurtbox, hurtbox_sets,
                                           config, rejected, orders)} :
                TickWith(delta, delta_e, sys, set_order, colliding, collisions, rejected, d)

\* A tick in which an owner lookup of the collision resolution panics:
\* hitbox_system has run, the unwinding leaves the rest of emd_hitme_system
\* undone (no dispatch, no tracker_system, the HitmeConfig resource not put
\* back) and the program does not take another step.
TickPanics(delta, delta_e) ==
    /\ last_call.op # "panic"
    /\ TickInBounds(delta, delta_e)
    /\ \E sys \in {hitbox_system(hitbox, hitbox_sets, delta, delta_e)} :
       \E colliding \in [get_all_active_hitboxes(sys.hitbox) -> SUBSET DOMAIN hurtbox] :
          /\ collisions_unwrap_panics(sys.hitbox, sys.hitbox_sets, hurtbox, hurtbox_sets,
                                      colliding)
          /\ hitbox' = sys.hitbox
          /\ hitbox_sets' = sys.hitbox_sets
          /\ dispatch' = EmptyMap
          /\ last_call' = [op |-> "panic", colliding |-> colliding]
          /\ UNCHANGED <<hurtbox_sets, hurtbox, config, visit, since_hit, tracker>>

\* refresh_hitboxes(world, id)
RefreshHitboxes(id) ==
    /\ hitbox' = refresh_hitboxes(hitbox, hitbox_sets, id)
    /\ since_hit' = [h \in DOMAIN since_hit |->
                       IF h = id \/ (id \in DOMAIN hitbox_sets /\
                                     \E n \in DOMAIN hitbox_sets[id].hitboxes :
                                        hitbox_sets[id].hitboxes[n] = h)
                       THEN EmptyMap ELSE since_hit[h]]
    /\ last_call' = [op |-> "refresh", id |-> id, before |-> hitbox]
    /\ UNCHANGED <<hitbox_sets, hurtbox_sets, hurtbox, config, visit, dispatch, tracker>>

\* Without the alternate delta functions both deltas are emd.delta().
Next ==
    \/ \E delta \in 0..MaxTickDelta : Tick(delta, delta)
    \/ \E id \in DOMAIN hitbox_sets : StartSequence(id, "swing")
    \/ \E id \in DOMAIN hitbox_sets \cup DOMAIN hitbox : RefreshHitboxes(id)

Spec == Init /\ [][Next]_vars

(***************************************************************************)
(* The last call, when it was a progress call: the frame it found, the     *)
(* elapsed time before it and after its delta was added.                   *)
(***************************************************************************)
IsProgress == last_call.op = "progress"
PreSet == last_call.before
PreCursor == PreSet.active_sequence[1]
PreHasFrame == HasFrame(PreSet.sequences, PreCursor.name, PreCursor.frame)
PreFrame == PreSet.sequences[PreCursor.name][PreCursor.frame + 1]
E0 == PreCursor.elapsed_time
E1 == PreCursor.elapsed_time + last_call.delta
FirstCallOfVisit == last_call.visit_before.calls = 0
PreTargets == get_hitboxes(PreFrame, PreSet.hitboxes)
OnFrameWithTargets == IsProgress /\ PreHasFrame /\ PreTargets # <<>>

\* C1: on every visited frame with delay d and duration t (and at least one
\* hitbox that resolves), HitboxActivated is emitted in exactly the first call
\* of the visit after which elapsed >= d, HitboxDeactivated in exactly the
\* first call after which elapsed >= d + t, and a visit that has ended emitted
\* each of the two exactly once.
C1_ActivationOncePerVisit ==
    /\ OnFrameWithTargets =>
         /\ HasEvent(last_call.events, "HitboxActivated")
              <=> (E1 >= PreFrame.delay /\ (FirstCallOfVisit \/ E0 < PreFrame.delay))
         /\ HasEvent(last_call.events, "HitboxActivated")
              => CountEvents(last_call.events, "HitboxActivated") = Len(PreTargets)
         /\ HasEvent(last_call.events, "HitboxDeactivated")
              <=> (E1 >= PreFrame.delay + PreFrame.duration
                   /\ (FirstCallOfVisit \/ E0 < PreFrame.delay + PreFrame.duration))
         /\ HasEvent(last_call.events, "HitboxDeactivated")
              => CountEvents(last_call.events, "HitboxDeactivated") = Len(PreTargets)
         /\ E1 >= PreFrame.delay + PreFrame.duration => last_call.closed # <<>>
         /\ last_call.closed # <<>>
              => last_call.closed[1].act = 1 /\ last_call.closed[1].deact = 1
    /\ \A id \in DOMAIN visit : visit[id].act <= 1 /\ visit[id].deact = 0

\* A visit whose activation came in a later call than its first (after a
\* delay) and whose deactivation came in a later call still.
C1_Witness ==
    /\ OnFrameWithTargets
    /\ PreFrame.delay > 0 /\ PreFrame.duration > 0
    /\ last_call.closed # <<>>
    /\ last_call.visit_before.act = 1
    /\ HasEvent(last_call.events, "HitboxDeactivated")
    /\ ~HasEvent(last_call.events, "HitboxActivated")

EventRank(e) ==
    CASE e.type = "HitboxActivated" -> 1
      [] e.type = "TagTriggered" -> 2
      [] e.type = "HitboxDeactivated" -> 3
      [] OTHER -> 4

SingleFrameNoDelay ==
    /\ IsProgress /\ PreHasFrame
    /\ Len(PreSet.sequences[PreCursor.name]) = 1
    /\ PreFrame.delay = 0 /\ PreFrame.tags = <<>> /\ PreTargets # <<>>

\* C2: the events of one progress call are ordered HitboxActivated,
\* TagTriggered, HitboxDeactivated, Finished; Finished is emitted by exactly
\* the call that ends the last frame, at most once per playback; a
\* single-frame timeline with delay 0 yields only its activations on a first
\* call with delta < duration and its deactivations followed by Finished on
\* the later call that brings elapsed to >= duration.
C2_EventOrderAndFinished ==
    /\ IsProgress =>
         /\ \A i, j \in DOMAIN last_call.events :
               i < j => EventRank(last_call.events[i]) <= EventRank(last_call.events[j])
         /\ HasEvent(last_call.events, "Finished")
              <=> /\ PreHasFrame
                  /\ PreCursor.frame + 1 = Len(PreSet.sequences[PreCursor.name])
                  /\ E1 >= PreFrame.delay + PreFrame.duration
         /\ CountEvents(last_call.events, "Finished") <= 1
    /\ \A id \in DOMAIN visit : visit[id].finished <= 1
    /\ SingleFrameNoDelay /\ FirstCallOfVisit /\ last_call.delta < PreFrame.duration
         => last_call.events = MapSeq(PreTargets, HitboxActivated)
    /\ SingleFrameNoDelay /\ ~FirstCallOfVisit /\ E1 >= PreFrame.duration
         => last_call.events = Append(MapSeq(PreTargets, HitboxDeactivated), Finished)

\* A call that ends the first frame of a two-frame timeline with all four
\* kinds of event but Finished, and so must not finish.
C2_Witness ==
    /\ IsProgress /\ PreHasFrame
    /\ Len(PreSet.sequences[PreCursor.name]) = 2 /\ PreCursor.frame = 0
    /\ HasEvent(last_call.events, "HitboxActivated")
    /\ HasEvent(last_call.events, "TagTriggered")
    /\ HasEvent(last_call.events, "HitboxDeactivated")

AllFlagsClear(set) ==
    \A n \in DOMAIN set.sequences : \A i \in DOMAIN set.sequences[n] :
        /\ ~set.sequences[n][i].active
        /\ \A k \in DOMAIN set.sequences[n][i].tags : ~set.sequences[n][i].tags[k].triggered

SomeFlagSetOutside(set, name) ==
    \E n \in DOMAIN set.sequences \ {name} : \E i \in DOMAIN set.sequences[n] :
        \/ set.sequences[n][i].active
        \/ \E k \in DOMAIN set.sequences[n][i].tags : set.sequences[n][i].tags[k].triggered

\* C3: after a successful start_sequence(name) the cursor is (name, 0, 0) and
\* every frame of every timeline of the set has active = false and every tag
\* triggered = false.
C3_StartResetsAllTimelines ==
    last_call.op = "start" /\ last_call.ok =>
        /\ hitbox_sets[last_call.id].active_sequence
             = <<[name |-> last_call.name, frame |-> 0, elapsed_time |-> 0]>>
        /\ AllFlagsClear(hitbox_sets[last_call.id])

\* A start issued while another timeline is playing with a flag set.
C3_Witness ==
    /\ last_call.op = "start" /\ last_call.ok
    /\ last_call.before.active_sequence # <<>>
    /\ last_call.before.active_sequence[1].name # last_call.name
    /\ SomeFlagSetOutside(last_call.before, last_call.name)

\* C4: start_sequence with a name that is no key of the set's sequences
\* returns Err and leaves the set (cursor and all transient flags) as it was.
C4_UnknownStartChangesNothing ==
    last_call.op = "start" /\ last_call.name \notin DOMAIN last_call.before.sequences =>
        /\ ~last_call.ok
        /\ hitbox_sets[last_call.id] = last_call.before

\* An unknown name given while a timeline is in the middle of an active frame.
C4_Witness ==
    /\ last_call.op = "start" /\ ~last_call.ok
    /\ last_call.before.active_sequence # <<>>
    /\ last_call.before.active_sequence[1].elapsed_time > 0
    /\ ~AllFlagsClear(last_call.before)

(***************************************************************************)
(* The last call, when it was a tick: its dispatch log, the owners of the  *)
(* boxes and what the log says was hit.                                    *)
(***************************************************************************)
IsTick == last_call.op = "tick"
OwnerOfHitbox(h) == hitbox_sets[hitbox[h].parent_set].owner
OwnerOfHurtbox(u) == hurtbox_sets[hurtbox[u].parent_set].owner
CooldownOf(h) == hitbox[h].cooldown_per_entity[1]
Steps(h) == IF h \in DOMAIN dispatch THEN dispatch[h] ELSE <<>>
CalledAt(h) == {i \in DOMAIN Steps(h) : Steps(h)[i].called}
HitHurtboxes(h) == {Steps(h)[i].hurtbox : i \in CalledAt(h)}
HitOwners(h) == {Steps(h)[i].hurt_entity : i \in CalledAt(h)}
Overlaps(h, u) == h \in DOMAIN last_call.colliding /\ u \in last_call.colliding[h]
Rejected(h, u) == \E k \in DOMAIN config.hit_filter_fns : <<k, h, u>> \in last_call.rejected
OnCooldown(h, o) ==
    o \in DOMAIN last_call.resolved[h] /\ last_call.resolved[h][o] < CooldownOf(h)

\* C5: an on-hit call of hitbox H against owner B happens only when the tick
\* deltas accumulated since H's previous on-hit call against B (with no
\* refresh of H since) sum to at least H's cooldown; and whatever H's ledger
\* holds for B, a different owner C that H overlaps and has no entry for is
\* hit in that tick (given a callback and no rejecting filter).
C5_CooldownWindow ==
    IsTick =>
        /\ \A h \in DOMAIN dispatch : \A i \in CalledAt(h) :
              LET o == dispatch[h][i].hurt_entity
                  earlier == {j \in CalledAt(h) : j < i /\ dispatch[h][j].hurt_entity = o}
              IN  IF earlier # {} THEN 0 >= CooldownOf(h)
                  ELSE o \in DOMAIN last_call.since[h]
                          => last_call.since[h][o] >= CooldownOf(h)
        /\ \A h \in DOMAIN last_call.colliding : \A u \in last_call.colliding[h] :
              ( /\ hurtbox[u].active
                /\ OwnerOfHurtbox(u) # OwnerOfHitbox(h)
                /\ OwnerOfHurtbox(u) \notin DOMAIN last_call.resolved[h]
                /\ ~Rejected(h, u)
                /\ config.on_hit_fns # <<>> )
              => OwnerOfHurtbox(u) \in HitOwners(h)

\* A tick in which H1 overlaps a hurtbox of B, whom it hit less than a
\* cooldown ago, and a hurtbox of C: B is not hit, C is.
C5_Witness ==
    /\ IsTick
    /\ Overlaps("H1", "U1") /\ Overlaps("H1", "U2")
    /\ OwnerOfHurtbox("U2") = "C"
    /\ OnCooldown("H1", "B")
    /\ HitOwners("H1") = {"C"}

\* C6: no dispatch step, no on-hit call and no ledger entry ever pairs a
\* hitbox with a hurtbox whose HurtboxSet owner is the hitbox's HitboxSet
\* owner, whatever filters and callbacks are registered.
C6_NoSelfDamage ==
    /\ IsTick =>
          /\ \A h \in DOMAIN dispatch : \A i \in DOMAIN dispatch[h] :
                dispatch[h][i].hit_entity # dispatch[h][i].hurt_entity
          /\ \A h \in DOMAIN last_call.collisions : \A u \in last_call.collisions[h] :
                OwnerOfHurtbox(u) # OwnerOfHitbox(h)
    /\ \A h \in DOMAIN hitbox : OwnerOfHitbox(h) \notin DOMAIN hitbox[h].damaged_entities

\* A tick in which H1 overlaps an active hurtbox of its own owner and a
\* hurtbox of B, with a callback and a filter registered: only B is hit.
C6_Witness ==
    /\ IsTick
    /\ Overlaps("H1", "U1") /\ Overlaps("H1", "U2")
    /\ OwnerOfHurtbox("U2") = OwnerOfHitbox("H1")
    /\ config.on_hit_fns # <<>> /\ config.hit_filter_fns # <<>>
    /\ HitOwners("H1") = {"B"}

BothOverlapFresh ==
    /\ IsTick
    /\ {"H1", "H2"} \subseteq DOMAIN last_call.colliding
    /\ Overlaps("H1", "U1") /\ Overlaps("H2", "U1")
    /\ last_call.resolved["H1"] = EmptyMap /\ last_call.resolved["H2"] = EmptyMap
    /\ last_call.rejected = {}

\* C7: when H1 and H2 of owner A both overlap the active hurtbox U1 of B in
\* one tick, with empty ledgers and no rejecting filter, the tick hits U1
\* once for H1 and once for H2 and leaves B at elapsed 0 in the ledger of
\* each; and a refresh of H1 leaves the ledger of H2 as it was.
C7_OneHitPerHitbox ==
    /\ BothOverlapFresh =>
          \A h \in {"H1", "H2"} :
             /\ HitHurtboxes(h) = {"U1"}
             /\ hitbox[h].damaged_entities = [o \in {"B"} |-> 0]
    /\ last_call.op = "refresh" /\ last_call.id = "H1" /\ "H2" \in DOMAIN hitbox
          => hitbox["H2"].damaged_entities = last_call.before["H2"].damaged_entities

\* C8: in one tick a hitbox that overlaps several active hurtboxes of one
\* owner yields at most one candidate pair for that owner and therefore hits
\* at most one hurtbox of that owner, whatever its cooldown (0 included).
C8_OneHitPerOwner ==
    IsTick =>
        \A h \in DOMAIN dispatch : \A u1, u2 \in HitHurtboxes(h) :
            OwnerOfHurtbox(u1) = OwnerOfHurtbox(u2) => u1 = u2

\* C9: for every (hitbox, hurtbox) pair that is hit in a tick, each
\* registered on-hit callback is called exactly once, in registration
\* order, and every one of them is called before the hurt owner is recorded
\* in the ledger (each call finds the ledger entry the first call found),
\* for any number of callbacks and any positive cooldown.
C9_EveryCallbackOnce ==
    IsTick =>
        \A h \in {x \in DOMAIN dispatch : CooldownOf(x) > 0} : \A u \in HitHurtboxes(h) :
            LET of_pair == {i \in DOMAIN dispatch[h] : dispatch[h][i].hurtbox = u}
                first == CHOOSE i \in of_pair : \A j \in of_pair : i <= j
            IN  /\ \A k \in DOMAIN config.on_hit_fns :
                      Cardinality({i \in of_pair : dispatch[h][i].called
                                                   /\ dispatch[h][i].f = config.on_hit_fns[k]}) = 1
                /\ \A i, j \in of_pair :
                      i < j /\ dispatch[h][i].called /\ dispatch[h][j].called
                         => dispatch[h][i].f < dispatch[h][j].f
                /\ \A i \in of_pair : dispatch[h][i].entry = dispatch[h][first].entry
                /\ hitbox[h].damaged_entities[OwnerOfHurtbox(u)] = 0

LedgerAfterHits(h) ==
    [o \in DOMAIN last_call.resolved[h] \cup HitOwners(h) |->
        IF o \in HitOwners(h) THEN 0 ELSE last_call.resolved[h][o]]

Decayed(ledger, delta) == [o \in DOMAIN ledger |-> ledger[o] + delta]

\* C11: a hitbox to which a tick applies a timeline HitboxDeactivated event
\* ends the tick inactive with an empty ledger and takes no part in the
\* tick's dispatch; a hitbox to which only a HitboxActivated event is
\* applied is active at resolution with the ledger it had (decayed), also
\* when it was active already; and a hitbox activated with an empty ledger
\* hits, in that tick, every other owner it overlaps (given a callback and
\* no rejecting filter).
C11_TimelineDeactivationRefreshes ==
    IsTick =>
        /\ \A h \in last_call.refreshed \cap DOMAIN hitbox :
              /\ ~hitbox[h].active
              /\ hitbox[h].damaged_entities = EmptyMap
              /\ h \notin DOMAIN dispatch
        /\ \A h \in (last_call.activated \ last_call.refreshed) \cap DOMAIN hitbox :
              /\ h \in DOMAIN last_call.colliding
              /\ last_call.resolved[h]
                    = Decayed(last_call.before[h].damaged_entities, last_call.delta)
              /\ \A u \in last_call.colliding[h] :
                    ( /\ last_call.resolved[h] = EmptyMap
                      /\ hurtbox[u].active
                      /\ OwnerOfHurtbox(u) # OwnerOfHitbox(h)
                      /\ ~Rejected(h, u)
                      /\ config.on_hit_fns # <<>> )
                    => OwnerOfHurtbox(u) \in HitOwners(h)

\* A tick whose timeline deactivates H1 while its ledger holds B, hit less
\* than a cooldown ago.
C11_Witness ==
    /\ IsTick
    /\ "H1" \in last_call.refreshed
    /\ "B" \in DOMAIN last_call.before["H1"].damaged_entities
    /\ last_call.before["H1"].damaged_entities["B"] + last_call.delta < CooldownOf("H1")
    /\ last_call.before["H1"].active

HitboxesAt(id) ==
    (IF id \in DOMAIN hitbox_sets
     THEN {hitbox_sets[id].hitboxes[n] : n \in DOMAIN hitbox_sets[id].hitboxes} ELSE {})
    \cup (IF id \in DOMAIN hitbox THEN {id} ELSE {})

\* C12: refresh empties the ledger whatever it held, is idempotent and
\* changes nothing else of the hitbox; refresh_hitboxes(id) refreshes the
\* hitboxes of the HitboxSet at id, and id itself when it is a hitbox, and
\* leaves every other hitbox as it was.
C12_RefreshEmptiesLedger ==
    /\ \A h \in DOMAIN hitbox :
          /\ refresh(hitbox[h]) = [hitbox[h] EXCEPT !.damaged_entities = EmptyMap]
          /\ refresh(refresh(hitbox[h])) = refresh(hitbox[h])
    /\ last_call.op = "refresh" =>
          \A h \in DOMAIN hitbox :
             hitbox[h] = IF h \in HitboxesAt(last_call.id)
                         THEN [last_call.before[h] EXCEPT !.damaged_entities = EmptyMap]
                         ELSE last_call.before[h]

\* refresh_hitboxes on the hitbox H1 alone while H1 and H2 both hold B.
C12_Witness ==
    /\ last_call.op = "refresh" /\ last_call.id = "H1"
    /\ "H2" \in DOMAIN hitbox
    /\ "B" \in DOMAIN last_call.before["H1"].damaged_entities
    /\ "B" \in DOMAIN hitbox["H2"].damaged_entities

(***************************************************************************)
(* A world whose group entities can be despawned: H1 of the HitboxSet on   *)
(* "A", the hurtbox U1 of the HurtboxSet on "B" and the hurtbox U2 of the  *)
(* HurtboxSet on "C"; one on-hit callback, no filter.  Despawning a group  *)
(* entity removes its set and leaves the boxes that name it as parent_set. *)
(***************************************************************************)
InitDangling ==
    /\ hitbox_sets = [id \in {"A"} |-> HitSet({"h1"})]
    /\ hitbox = [id \in {"H1"} |-> NewHitbox("A", TRUE, <<>>, <<>>, DefaultCooldown)]
    /\ hurtbox = [id \in {"U1", "U2"} |-> NewHurtbox(IF id = "U1" THEN "B" ELSE "C", TRUE)]
    /\ hurtbox_sets = [id \in {"B", "C"} |->
                         [hurtboxes |-> IF id = "B" THEN <<"U1">> ELSE <<"U2">>, owner |-> id]]
    /\ config = [on_hit_fns |-> <<1>>, hit_filter_fns |-> <<>>,
                 tag_handlers |-> <<>>, tag_handlers_by_name |-> EmptyMap]
    /\ last_call = NoCall
    /\ visit = [id \in {"A"} |-> NoVisit]
    /\ dispatch = EmptyMap
    /\ since_hit = [id \in {"H1"} |-> EmptyMap]
    /\ tracker = Trackers(hitbox, hurtbox)

\* World::despawn(id) by the game, between two ticks.
Despawn(id) ==
    /\ last_call.op # "panic"
    /\ hitbox_sets' = [e \in DOMAIN hitbox_sets \ {id} |-> hitbox_sets[e]]
    /\ hurtbox_sets' = [e \in DOMAIN hurtbox_sets \ {id} |-> hurtbox_sets[e]]
    /\ last_call' = [op |-> "despawn", id |-> id]
    /\ UNCHANGED <<hitbox, hurtbox, config, visit, dispatch, since_hit, tracker>>

NextDangling ==
    \/ \E delta \in 0..MaxTickDelta : Tick(delta, delta)
    \/ \E delta \in 0..MaxTickDelta : TickPanics(delta, delta)
    \/ \E id \in DOMAIN hitbox_sets \cup DOMAIN hurtbox_sets : Despawn(id)

SpecDangling == InitDangling /\ [][NextDangling]_vars

LookupsSucceed(h, u) ==
    hitbox[h].parent_set \in DOMAIN hitbox_sets /\ hurtbox[u].parent_set \in DOMAIN hurtbox_sets

\* C13: a tick in which an active hitbox overlaps an active hurtbox while an
\* owner lookup of the pair fails does not abort: the pair is skipped and
\* every other overlapping pair of the tick whose lookups succeed is
\* resolved and dispatched as usual.
C13_DanglingPairSkipped ==
    /\ last_call.op # "panic"
    /\ IsTick =>
          \A h \in DOMAIN last_call.colliding : \A u \in last_call.colliding[h] :
              IF LookupsSucceed(h, u)
              THEN ( /\ hurtbox[u].active
                     /\ OwnerOfHurtbox(u) # OwnerOfHitbox(h)
                     /\ OwnerOfHurtbox(u) \notin DOMAIN last_call.resolved[h] )
                   => OwnerOfHurtbox(u) \in HitOwners(h)
              ELSE u \notin HitHurtboxes(h)

(***************************************************************************)
(* A world with one-shot timers: the HitboxSet on "A" has the hitbox H1,   *)
(* which its timeline "swing" drives, and the hitbox H2, which no frame    *)
(* names and which is configured with any of activate_after,               *)
(* deactivate_after and active; the hurtbox U1 belongs to "B"; one on-hit  *)
(* callback, no filter.                                                    *)
(***************************************************************************)
Timers == {<<>>} \cup {<<t>> : t \in 1..MaxTimer}

InitTimed ==
    /\ hitbox_sets = [id \in {"A"} |-> HitSet({"h1", "h2"})]
    /\ \E activate_after \in Timers, deactivate_after \in Timers, active \in BOOLEAN :
          hitbox = [id \in {"H1", "H2"} |->
                      IF id = "H1" THEN NewHitbox("A", FALSE, <<>>, <<>>, DefaultCooldown)
                      ELSE NewHitbox("A", active, activate_after, deactivate_after,
                                     DefaultCooldown)]
    /\ hurtbox = [id \in {"U1"} |-> NewHurtbox("B", TRUE)]
    /\ hurtbox_sets = [id \in {"B"} |-> [hurtboxes |-> <<"U1">>, owner |-> id]]
    /\ config = [on_hit_fns |-> <<1>>, hit_filter_fns |-> <<>>,
                 tag_handlers |-> <<>>, tag_handlers_by_name |-> EmptyMap]
    /\ last_call = NoCall
    /\ visit = [id \in {"A"} |-> NoVisit]
    /\ dispatch = EmptyMap
    /\ since_hit = [id \in {"H1", "H2"} |-> EmptyMap]
    /\ tracker = Trackers(hitbox, hurtbox)

\* With the alternate delta functions the delta of the ledgers and the delta
\* of the entities are chosen independently.
NextTimed ==
    \/ \E delta \in 0..MaxTickDelta, delta_e \in 0..MaxTickDelta : Tick(delta, delta_e)
    \/ \E id \in DOMAIN hitbox_sets : StartSequence(id, "swing")
    \/ \E id \in DOMAIN hitbox : RefreshHitboxes(id)

SpecTimed == InitTimed /\ [][NextTimed]_vars

Reached(h, timer) == timer # <<>> /\ h.elapsed_time >= timer[1]

\* The hitbox h as the tick found it, with the tick's delta_e added.
Clocked(h) ==
    [last_call.before[h] EXCEPT !.elapsed_time = @ + last_call.delta_e]

\* C14: in every tick the one-shot step leaves a hitbox with neither timer as
\* it is; with activate_after set it adds the delta and, once the elapsed
\* time reaches the threshold, activates the hitbox and clears activate_after;
\* with only deactivate_after set it does the same to deactivate; and a timer
\* that is None is None after every step of the program, so each timer fires
\* at most once.
C14_Step ==
    /\ last_call'.op = "tick" =>
          \A h \in DOMAIN hitbox :
             LET b == hitbox[h]
                 c == [b EXCEPT !.elapsed_time = @ + last_call'.delta_e]
                 t == last_call'.timed[h]
             IN  /\ (b.activate_after = <<>> /\ b.deactivate_after = <<>>) => t = b
                 /\ b.activate_after # <<>> =>
                       t = IF Reached(c, b.activate_after)
                           THEN [c EXCEPT !.active = TRUE, !.activate_after = <<>>]
                           ELSE c
                 /\ (b.activate_after = <<>> /\ b.deactivate_after # <<>>) =>
                       t = IF Reached(c, b.deactivate_after)
                           THEN [c EXCEPT !.active = FALSE, !.deactivate_after = <<>>]
                           ELSE c
                 /\ hitbox'[h].activate_after = t.activate_after
                 /\ hitbox'[h].deactivate_after = t.deactivate_after
                 /\ hitbox'[h].elapsed_time = t.elapsed_time
    /\ \A h \in DOMAIN hitbox :
          /\ hitbox[h].activate_after = <<>> => hitbox'[h].activate_after = <<>>
          /\ hitbox[h].deactivate_after = <<>> => hitbox'[h].deactivate_after = <<>>

C14_TimersFireOnce == [][C14_Step]_vars

\* A tick in which the activation timer of H2 fired, after a tick in which
\* it was pending.
C14_Witness ==
    /\ IsTick
    /\ last_call.before["H2"].activate_after # <<>>
    /\ last_call.before["H2"].elapsed_time > 0
    /\ ~last_call.before["H2"].active
    /\ last_call.timed["H2"].activate_after = <<>>
    /\ last_call.timed["H2"].active

BothReached(h) ==
    /\ Reached(Clocked(h), last_call.before[h].activate_after)
    /\ Reached(Clocked(h), last_call.before[h].deactivate_after)

\* C15: while activate_after is pending the one-shot step leaves
\* deactivate_after alone, also when the elapsed time exceeds it; in a tick
\* in which both thresholds are reached the hitbox is activated, is active
\* at collision resolution and keeps its deactivate_after; the deactivation
\* fires in the step of a later tick that finds activate_after cleared.
C15_ActivationFirst ==
    IsTick =>
        \A h \in DOMAIN hitbox :
            /\ last_call.before[h].activate_after # <<>> =>
                  /\ last_call.timed[h].deactivate_after = last_call.before[h].deactivate_after
                  /\ hitbox[h].deactivate_after = last_call.before[h].deactivate_after
            /\ BothReached(h) =>
                  /\ last_call.timed[h].active /\ last_call.timed[h].activate_after = <<>>
                  /\ h \notin last_call.refreshed => h \in DOMAIN last_call.colliding
            /\ ( /\ last_call.before[h].activate_after = <<>>
                 /\ Reached(Clocked(h), last_call.before[h].deactivate_after) )
               => /\ ~last_call.timed[h].active
                  /\ last_call.timed[h].deactivate_after = <<>>

\* A tick that reaches both thresholds of H2, the deactivation threshold
\* being the lower one, and in which H2 hits B.
C15_Witness ==
    /\ IsTick
    /\ BothReached("H2")
    /\ last_call.before["H2"].deactivate_after[1] < last_call.before["H2"].activate_after[1]
    /\ ~last_call.before["H2"].active
    /\ HitOwners("H2") = {"B"}

ActivatedByTimer(h) == ~last_call.before[h].active /\ last_call.timed[h].active

\* C16: in every tick the timers, the ledger decay and the timeline with its
\* events come before collision resolution and dispatch: a hitbox that a
\* timer or a timeline frame activated in the tick (and the timeline did not
\* deactivate) takes part in the tick's resolution and hits what it
\* overlaps; a hitbox the timeline deactivated takes no part; the ledgers at
\* resolution are the ledgers the tick found, decayed by the tick's delta;
\* and an owner hit in the tick has the entry 0 when the tick ends.
C16_TickOrder ==
    IsTick =>
        \A h \in DOMAIN hitbox :
            /\ ((ActivatedByTimer(h) \/ h \in last_call.activated)
                   /\ h \notin last_call.refreshed)
               => /\ h \in DOMAIN last_call.colliding
                  /\ \A u \in last_call.colliding[h] :
                        (OwnerOfHurtbox(u) # OwnerOfHitbox(h)
                           /\ ~OnCooldown(h, OwnerOfHurtbox(u)))
                        => OwnerOfHurtbox(u) \in HitOwners(h)
            /\ h \in last_call.refreshed
               => h \notin DOMAIN last_call.colliding /\ Steps(h) = <<>>
            /\ h \notin last_call.refreshed
               => last_call.resolved[h]
                     = Decayed(last_call.before[h].damaged_entities, last_call.delta)
            /\ \A o \in HitOwners(h) : hitbox[h].damaged_entities[o] = 0

\* A tick with a positive delta in which a timer activates H2, which hits B
\* at once, and the timeline deactivates H1, which a frame had activated in
\* an earlier tick and which had hit B in the tick of its activation.
C16_Witness ==
    /\ IsTick
    /\ last_call.delta > 0
    /\ ActivatedByTimer("H2")
    /\ HitOwners("H2") = {"B"}
    /\ "H1" \in last_call.refreshed \ last_call.activated
    /\ "B" \in DOMAIN last_call.before["H1"].damaged_entities

Owners == {"A", "B", "C"}
Ledger(h) == hitbox[h].damaged_entities
RefreshedBy(call, h) ==
    \/ call.op = "tick" /\ h \in call.refreshed
    \/ call.op = "refresh" /\ h \in HitboxesAt(call.id)

\* What holds of the ledgers in every state: the decay step adds its delta to
\* every entry of every hitbox and keeps the keys, a tick resolves with the
\* decayed ledgers of all the hitboxes the timeline did not refresh, and an
\* owner is eligible exactly when it has no entry or its entry is >= the
\* cooldown.
C17_State ==
    /\ \A delta \in 0..MaxTickDelta : \A h \in DOMAIN hitbox :
          hitbox_damaged_entity_delta_system(hitbox, delta)[h]
             = [hitbox[h] EXCEPT !.damaged_entities = Decayed(@, delta)]
    /\ IsTick => \A h \in DOMAIN hitbox \ last_call.refreshed :
          last_call.resolved[h] = Decayed(last_call.before[h].damaged_entities, last_call.delta)
    /\ \A h \in DOMAIN hitbox : \A o \in Owners :
          can_damage_entity(hitbox[h], o)
             <=> (o \notin DOMAIN Ledger(h) \/ Ledger(h)[o] >= CooldownOf(h))

\* What holds of every step: an owner leaves a ledger only by a refresh of
\* the hitbox, and an entry goes down only to 0 and only in a tick whose
\* dispatch calls an on-hit callback of that hitbox against that owner.
C17_Step ==
    \A h \in DOMAIN hitbox : \A o \in DOMAIN Ledger(h) :
        IF o \notin DOMAIN hitbox'[h].damaged_entities
        THEN RefreshedBy(last_call', h)
        ELSE hitbox'[h].damaged_entities[o] < Ledger(h)[o]
                => /\ hitbox'[h].damaged_entities[o] = 0
                   /\ last_call'.op = "tick"
                   /\ h \in DOMAIN dispatch'
                   /\ \E i \in DOMAIN dispatch'[h] :
                         dispatch'[h][i].called /\ dispatch'[h][i].hurt_entity = o

\* C17: decay adds the tick's delta to every entry of every ledger, active
\* hitbox or not, and keeps the keys; owners leave a ledger only by refresh;
\* an entry only goes down when a hit overwrites it with 0; an owner with an
\* entry is eligible exactly when the entry is >= the cooldown, an owner with
\* no entry always.
C17_LedgerDecay == []C17_State /\ [][C17_Step]_vars

\* A tick with a positive delta that finds the inactive hitbox H2 holding B:
\* the entry has grown by the delta.
C17_Witness ==
    /\ IsTick
    /\ last_call.delta > 0
    /\ ~last_call.before["H2"].active /\ ~hitbox["H2"].active
    /\ "B" \in DOMAIN last_call.before["H2"].damaged_entities
    /\ "B" \in DOMAIN Ledger("H2")
    /\ Ledger("H2")["B"] = last_call.before["H2"].damaged_entities["B"] + last_call.delta

Emitted(e) == \E i \in DOMAIN last_call.events : last_call.events[i] = e
TimesEmitted(e) == Cardinality({i \in DOMAIN last_call.events : last_call.events[i] = e})
PostSet == hitbox_sets[last_call.id]
PostCursor == PostSet.active_sequence[1]
FrameEnds == PreHasFrame /\ E1 >= PreFrame.delay + PreFrame.duration

\* C18: a tag of the visited frame is emitted by exactly the first call of
\* the visit after which elapsed >= frame.delay + tag.delay, once, and so
\* never while elapsed < frame.delay + tag.delay and at most once per visit;
\* when the frame ends the triggered flags of its tags are clear again; a
\* call that finds no frame emits no tag.
C18_TagOncePerVisit ==
    /\ IsProgress =>
          /\ PreHasFrame =>
                \A k \in DOMAIN PreFrame.tags :
                   LET tag == PreFrame.tags[k]
                       due == PreFrame.delay + tag.delay
                   IN  /\ Emitted(TagTriggered(tag.name, tag.data))
                            <=> (E1 >= due /\ (FirstCallOfVisit \/ E0 < due))
                       /\ TimesEmitted(TagTriggered(tag.name, tag.data)) <= 1
          /\ ~PreHasFrame => ~HasEvent(last_call.events, "TagTriggered")
          /\ FrameEnds =>
                /\ last_call.closed # <<>>
                /\ last_call.closed[1].tags <= Len(PreFrame.tags)
                /\ \A k \in DOMAIN PreFrame.tags :
                      ~PostSet.sequences[PreCursor.name][PreCursor.frame + 1].tags[k].triggered
    /\ \A id \in DOMAIN visit : visit[id].tags <= 1

\* A call, later than the first of its visit and later than the one that
\* activated the frame, that emits the tag while the frame goes on.
C18_Witness ==
    /\ IsProgress /\ PreHasFrame
    /\ ~FirstCallOfVisit
    /\ last_call.visit_before.act = 1
    /\ HasEvent(last_call.events, "TagTriggered")
    /\ ~FrameEnds
    /\ visit[last_call.id].tags = 1

\* C20: a progress call leaves the frame index as it is, adding the delta to
\* the elapsed time, or, when the frame ends, raises the index by exactly 1
\* and sets the elapsed time to 0, whatever the delta; the events of the call
\* concern the hitboxes of the frame it found only.
C20_OneFramePerCall ==
    IsProgress =>
        /\ PostSet.active_sequence # <<>>
        /\ PostCursor.name = PreCursor.name
        /\ PostCursor.frame >= PreCursor.frame
        /\ IF FrameEnds
           THEN PostCursor.frame = PreCursor.frame + 1 /\ PostCursor.elapsed_time = 0
           ELSE PostCursor.frame = PreCursor.frame /\ PostCursor.elapsed_time = E1
        /\ \A i \in DOMAIN last_call.events :
              last_call.events[i].type \in {"HitboxActivated", "HitboxDeactivated"}
                 => /\ PreHasFrame
                    /\ \E k \in DOMAIN PreTargets : PreTargets[k] = last_call.events[i].hitbox

FrameLength(f) == f.delay + f.duration

\* A call on the first frame of the two-frame timeline whose delta covers
\* both frames, the second one having a length above 0.
C20_Witness ==
    /\ IsProgress /\ PreHasFrame
    /\ PreCursor.frame = 0 /\ Len(PreSet.sequences[PreCursor.name]) = 2
    /\ FrameLength(PreSet.sequences[PreCursor.name][2]) > 0
    /\ last_call.delta >= FrameLength(PreFrame) + FrameLength(PreSet.sequences[PreCursor.name][2])
    /\ PostCursor.frame = 1 /\ PostCursor.elapsed_time = 0

(***************************************************************************)
(* A world for the tag handlers: the HitboxSet on "A" has one timeline     *)
(* whose only frame carries the tags "fx" (delay 0) and "sfx" (delay 1);   *)
(* the game registers global handlers and handlers by name at any time     *)
(* between two ticks.  Global handlers are the functions 1, 2, ..., the    *)
(* functions registered by name are the functions 11, 12.                  *)
(***************************************************************************)
TagSet ==
    [hitboxes |-> [n \in {"h1"} |-> "H1"],
     owner |-> "A",
     sequences |-> [n \in {"swing"} |->
                      <<Frame(2, 0, <<"h1">>, <<>>,
                              <<Tag("fx", 0, FALSE), Tag("sfx", 1, FALSE)>>, FALSE)>>],
     active_sequence |-> <<>>]

InitTags ==
    /\ hitbox_sets = [id \in {"A"} |-> TagSet]
    /\ hitbox = [id \in {"H1"} |-> NewHitbox("A", FALSE, <<>>, <<>>, DefaultCooldown)]
    /\ hurtbox_sets = EmptyMap
    /\ hurtbox = EmptyMap
    /\ config = [on_hit_fns |-> <<>>, hit_filter_fns |-> <<>>,
                 tag_handlers |-> <<>>, tag_handlers_by_name |-> EmptyMap]
    /\ last_call = NoCall
    /\ visit = [id \in {"A"} |-> NoVisit]
    /\ dispatch = EmptyMap
    /\ since_hit = [id \in {"H1"} |-> EmptyMap]
    /\ tracker = Trackers(hitbox, hurtbox)

NamedHandlers == {11, 12}
HandledNames == {"fx", "other"}

\* add_on_tag_trigger(emd, handler) with a function not registered before.
AddOnTagTrigger ==
    /\ Len(config.tag_handlers) < MaxHandlers
    /\ config' = add_on_tag_trigger(config, Len(config.tag_handlers) + 1)
    /\ last_call' = [op |-> "add_on_tag_trigger", before |-> config]
    /\ UNCHANGED <<hitbox_sets, hitbox, hurtbox_sets, hurtbox, visit, dispatch, since_hit, tracker>>

\* add_on_tag_trigger_by_name(emd, tag, handler)
AddOnTagTriggerByName(tag, handler) ==
    /\ config' = add_on_tag_trigger_by_name(config, tag, handler)
    /\ last_call' = [op |-> "add_on_tag_trigger_by_name", tag |-> tag, handler |-> handler,
                     before |-> config]
    /\ UNCHANGED <<hitbox_sets, hitbox, hurtbox_sets, hurtbox, visit, dispatch, since_hit, tracker>>

NextTags ==
    \/ \E delta \in 0..MaxTickDelta : Tick(delta, delta)
    \/ \E id \in DOMAIN hitbox_sets : StartSequence(id, "swing")
    \/ AddOnTagTrigger
    \/ \E tag \in HandledNames, handler \in NamedHandlers : AddOnTagTriggerByName(tag, handler)

SpecTags == InitTags /\ [][NextTags]_vars

IsTagEvent(e) == e.type = "TagTriggered"
\* The TagTriggered events that the timeline of "A" emitted in the last tick.
TickTags == SelectSeq(last_call.events["A"], IsTagEvent)
TagIndex(name) == CHOOSE j \in DOMAIN TickTags : TickTags[j].name = name
CallsOfTag(name) ==
    LET OfTag(c) == c.tag = name
    IN  SelectSeq(last_call.tag_calls, OfTag)

\* C19: for each TagTriggered event of a tick the handler calls are the
\* global handlers in registration order and then the handler registered for
\* the tag's name, if any, each once and each with the tag, the entity of
\* the HitboxSet and the tag's data; the calls of an earlier event come
\* before those of a later one and no other call is made; registering a
\* handler by name replaces the handler of that name and nothing else, and
\* registering a global handler appends it.
C19_TagHandlerOrder ==
    /\ IsTick =>
          /\ \A j \in DOMAIN TickTags :
                LET calls == CallsOfTag(TickTags[j].name)
                    named == IF TickTags[j].name \in DOMAIN config.tag_handlers_by_name
                             THEN <<config.tag_handlers_by_name[TickTags[j].name]>> ELSE <<>>
                IN  /\ [i \in DOMAIN calls |-> calls[i].f] = config.tag_handlers \o named
                    /\ \A i \in DOMAIN calls :
                          calls[i].hitbox_set_owner = "A" /\ calls[i].data = TickTags[j].data
          /\ \A i \in DOMAIN last_call.tag_calls :
                \E j \in DOMAIN TickTags : TickTags[j].name = last_call.tag_calls[i].tag
          /\ \A i, k \in DOMAIN last_call.tag_calls :
                i < k => TagIndex(last_call.tag_calls[i].tag)
                            <= TagIndex(last_call.tag_calls[k].tag)
    /\ last_call.op = "add_on_tag_trigger_by_name" =>
          /\ config.tag_handlers_by_name[last_call.tag] = last_call.handler
          /\ DOMAIN config.tag_handlers_by_name
                = DOMAIN last_call.before.tag_handlers_by_name \cup {last_call.tag}
          /\ \A t \in DOMAIN last_call.before.tag_handlers_by_name \ {last_call.tag} :
                config.tag_handlers_by_name[t] = last_call.before.tag_handlers_by_name[t]
          /\ config.tag_handlers = last_call.before.tag_handlers
    /\ last_call.op = "add_on_tag_trigger" =>
          /\ Len(config.tag_handlers) = Len(last_call.before.tag_handlers) + 1
          /\ SubSeq(config.tag_handlers, 1, Len(last_call.before.tag_handlers))
                = last_call.before.tag_handlers
          /\ config.tag_handlers_by_name = last_call.before.tag_handlers_by_name

\* A tick that triggers both tags with two global handlers, the handler 12
\* registered for "fx" and a handler registered for a name no tag has.
C19_Witness ==
    /\ IsTick
    /\ Len(TickTags) = 2
    /\ Len(config.tag_handlers) = 2
    /\ DOMAIN config.tag_handlers_by_name = {"fx", "other"}
    /\ config.tag_handlers_by_name["fx"] = 12
    /\ Len(last_call.tag_calls) = 5

(***************************************************************************)
(* Playback under the tick driver.  The world of InitSeq (one HitboxSet on *)
(* "A" with the timelines "swing", "jab" and the frameless "empty", two    *)
(* hitboxes without timers, no hurtbox) is driven by emd_hitme_system and  *)
(* by activate_hitbox_sequence with any name.                              *)
(***************************************************************************)
NextPlay ==
    \/ \E delta \in 0..MaxTickDelta : Tick(delta, delta)
    \/ \E id \in DOMAIN hitbox_sets, name \in SequenceNames : StartSequence(id, name)

SpecPlay == InitSeq /\ [][NextPlay]_vars

\* The state is a tick boundary: emd_hitme_system has just returned, or a
\* start_sequence has just returned Ok.
AtTickBoundary == last_call.op = "tick" \/ (last_call.op = "start" /\ last_call.ok)

Cursor(id) == hitbox_sets[id].active_sequence
Playing(id) == Cursor(id) # <<>>
Idle(id) == Cursor(id) = <<>>

\* C21: at every tick boundary the cursor of a playing HitboxSet names one of
\* the set's timelines and its frame index is strictly less than the frame
\* count of that timeline, for every timeline that start_sequence accepts
\* (the frameless one included).
C21_CursorWithinTimeline ==
    AtTickBoundary =>
        \A id \in DOMAIN hitbox_sets :
            Playing(id) =>
                /\ Cursor(id)[1].name \in DOMAIN hitbox_sets[id].sequences
                /\ Cursor(id)[1].frame < Len(hitbox_sets[id].sequences[Cursor(id)[1].name])

(***************************************************************************)
(* The world merge handler.  A loaded world has just been merged in: its   *)
(* entities live under their new ids ("A", "B", "H1", "U1", "U2") while    *)
(* the references their components store still hold the ids of the loaded  *)
(* world ("oA", "oB", "oH1", "oU1", "oU2"); merge_handler is called once   *)
(* with the map from old to new ids, then the game ticks.                  *)
(***************************************************************************)
remap(entity_map, e) == IF e \in DOMAIN entity_map THEN entity_map[e] ELSE e

contains(list, e) == \E i \in DOMAIN list : list[i] = e

\* The loop over old_hurtbox_ids from its i-th element on: the new id of an
\* element is pushed when the list already contains that new id.
RECURSIVE merge_hurtboxes(_, _, _, _)
merge_hurtboxes(hurtboxes, old_hurtbox_ids, i, entity_map) ==
    IF i > Len(old_hurtbox_ids) THEN hurtboxes
    ELSE LET h == old_hurtbox_ids[i]
         IN  merge_hurtboxes(
                 IF h \in DOMAIN entity_map /\ contains(hurtboxes, entity_map[h])
                 THEN Append(hurtboxes, entity_map[h]) ELSE hurtboxes,
                 old_hurtbox_ids, i + 1, entity_map)

\* merge_handler(new_world, _old_world, entity_map): the components after it.
merge_handler(hb, ub, usets, hsets, tr, entity_map) ==
    [hitbox |-> [id \in DOMAIN hb |->
                    [hb[id] EXCEPT !.parent_set = remap(entity_map, @)]],
     hurtbox |-> [id \in DOMAIN ub |->
                    [ub[id] EXCEPT !.parent_set = remap(entity_map, @)]],
     hurtbox_sets |-> [id \in DOMAIN usets |->
                    [usets[id] EXCEPT
                        !.hurtboxes = merge_hurtboxes(@, @, 1, entity_map),
                        !.owner = remap(entity_map, @)]],
     hitbox_sets |-> [id \in DOMAIN hsets |->
                    [hsets[id] EXCEPT
                        !.hitboxes = [n \in DOMAIN @ |-> remap(entity_map, @[n])],
                        !.owner = remap(entity_map, @)]],
     tracker |-> [id \in DOMAIN tr |-> [tr[id] EXCEPT !.target = remap(entity_map, @)]]]

OldId(e) == "o" \o e

InitMerge ==
    /\ hitbox_sets = [id \in {"A"} |->
                        [HitSet({"h1"}) EXCEPT !.hitboxes = [n \in {"h1"} |-> OldId("H1")],
                                               !.owner = OldId("A")]]
    /\ \E active \in BOOLEAN :
          hitbox = [id \in {"H1"} |-> NewHitbox(OldId("A"), active, <<>>, <<>>, DefaultCooldown)]
    /\ hurtbox = [id \in {"U1", "U2"} |-> NewHurtbox(OldId("B"), TRUE)]
    /\ hurtbox_sets = [id \in {"B"} |->
                         [hurtboxes |-> <<OldId("U1"), OldId("U2")>>, owner |-> OldId("B")]]
    /\ config = [on_hit_fns |-> <<1>>, hit_filter_fns |-> <<>>,
                 tag_handlers |-> <<>>, tag_handlers_by_name |-> EmptyMap]
    /\ last_call = NoCall
    /\ visit = [id \in {"A"} |-> NoVisit]
    /\ dispatch = EmptyMap
    /\ since_hit = [id \in {"H1"} |-> EmptyMap]
    /\ tracker = Trackers(hitbox, hurtbox)

\* The maps the merge can hand over: each merged entity maps its old id to
\* the id it lives under; entities merged in an earlier call are not keys.
EntityMaps ==
    {[o \in {OldId(e) : e \in new} |-> CHOOSE e \in new : OldId(e) = o] :
        new \in SUBSET {"A", "B", "H1", "U1", "U2"}}

MergeHandler(entity_map) ==
    /\ last_call = NoCall
    /\ \E m \in {merge_handler(hitbox, hurtbox, hurtbox_sets, hitbox_sets, tracker, entity_map)} :
          /\ hitbox' = m.hitbox
          /\ hurtbox' = m.hurtbox
          /\ hurtbox_sets' = m.hurtbox_sets
          /\ hitbox_sets' = m.hitbox_sets
          /\ tracker' = m.tracker
    /\ last_call' = [op |-> "merge", entity_map |-> entity_map,
                     before |-> [hitbox |-> hitbox, hurtbox |-> hurtbox,
                                 hurtbox_sets |-> hurtbox_sets, hitbox_sets |-> hitbox_sets,
                                 tracker |-> tracker]]
    /\ UNCHANGED <<config, visit, dispatch, since_hit>>

NextMerge ==
    \/ \E entity_map \in EntityMaps : MergeHandler(entity_map)
    \/ last_call # NoCall /\ \E delta \in 0..MaxTickDelta : Tick(delta, delta)
    \/ last_call # NoCall /\ \E delta \in 0..MaxTickDelta : TickPanics(delta, delta)
    \/ last_call # NoCall /\ \E id \in DOMAIN hitbox_sets : StartSequence(id, "swing")

SpecMerge == InitMerge /\ [][NextMerge]_vars

IsMerge == last_call.op = "merge"
Mapped(e) == remap(last_call.entity_map, e)

\* C22: after merge_handler every stored reference that is a key of the map
\* holds the mapped id instead, every other reference is unchanged, and the
\* member lists keep their length: Hitbox.parent_set, Hurtbox.parent_set,
\* the owner of both kinds of set, each entry of HitboxSet.hitboxes, each
\* element of HurtboxSet.hurtboxes and the tracker target.
C22_MergeRemapsEveryReference ==
    IsMerge =>
        /\ \A id \in DOMAIN hitbox :
              hitbox[id].parent_set = Mapped(last_call.before.hitbox[id].parent_set)
        /\ \A id \in DOMAIN hurtbox :
              hurtbox[id].parent_set = Mapped(last_call.before.hurtbox[id].parent_set)
        /\ \A id \in DOMAIN hitbox_sets :
              /\ hitbox_sets[id].owner = Mapped(last_call.before.hitbox_sets[id].owner)
              /\ DOMAIN hitbox_sets[id].hitboxes = DOMAIN last_call.before.hitbox_sets[id].hitboxes
              /\ \A n \in DOMAIN hitbox_sets[id].hitboxes :
                    hitbox_sets[id].hitboxes[n] =
                        Mapped(last_call.before.hitbox_sets[id].hitboxes[n])
        /\ \A id \in DOMAIN hurtbox_sets :
              /\ hurtbox_sets[id].owner = Mapped(last_call.before.hurtbox_sets[id].owner)
              /\ Len(hurtbox_sets[id].hurtboxes) = Len(last_call.before.hurtbox_sets[id].hurtboxes)
              /\ \A i \in DOMAIN hurtbox_sets[id].hurtboxes :
                    hurtbox_sets[id].hurtboxes[i] =
                        Mapped(last_call.before.hurtbox_sets[id].hurtboxes[i])
        /\ \A id \in DOMAIN tracker :
              tracker[id].target = Mapped(last_call.before.tracker[id].target)

(***************************************************************************)
(* A world whose boxes are configured active or inactive: the hitbox H1 of *)
(* the HitboxSet on "A" (its timeline "swing" drives it too), the hurtbox  *)
(* U1 of the HurtboxSet on "B" and the hurtbox U2 of the one on "C"; one   *)
(* on-hit callback, no filter.  The physics query of a tick can name any   *)
(* hurtbox entity, active or not.                                          *)
(***************************************************************************)
InitBoxes ==
    /\ hitbox_sets = [id \in {"A"} |-> HitSet({"h1"})]
    /\ \E active \in BOOLEAN :
          hitbox = [id \in {"H1"} |-> NewHitbox("A", active, <<>>, <<>>, DefaultCooldown)]
    /\ \E a1 \in BOOLEAN, a2 \in BOOLEAN :
          hurtbox = [id \in {"U1", "U2"} |->
                        NewHurtbox(IF id = "U1" THEN "B" ELSE "C", IF id = "U1" THEN a1 ELSE a2)]
    /\ hurtbox_sets = [id \in {"B", "C"} |->
                         [hurtboxes |-> IF id = "B" THEN <<"U1">> ELSE <<"U2">>, owner |-> id]]
    /\ config = [on_hit_fns |-> <<1>>, hit_filter_fns |-> <<>>,
                 tag_handlers |-> <<>>, tag_handlers_by_name |-> EmptyMap]
    /\ last_call = NoCall
    /\ visit = [id \in {"A"} |-> NoVisit]
    /\ dispatch = EmptyMap
    /\ since_hit = [id \in {"H1"} |-> EmptyMap]
    /\ tracker = Trackers(hitbox, hurtbox)

NextBoxes ==
    \/ \E delta \in 0..MaxTickDelta : Tick(delta, delta)
    \/ \E id \in DOMAIN hitbox_sets : StartSequence(id, "swing")

SpecBoxes == InitBoxes /\ [][NextBoxes]_vars

\* The hit events of the last tick: the (hitbox, hurtbox) pairs whose
\* dispatch step sent a hit to a callback.
HitEvents == UNION {{<<h, u>> : u \in HitHurtboxes(h)} : h \in DOMAIN dispatch}

\* C23: every hit event of a tick is for a hitbox and a hurtbox whose active
\* flags were true when the collision resolution of the tick collected its
\* candidates, whatever the physics query reported.
C23_OnlyActiveBoxesHit ==
    IsTick => \A p \in HitEvents : p[1] \in last_call.active /\ p[2] \in last_call.active

\* A tick in which the physics query reported an active and an inactive
\* hurtbox for the active H1, and the active one was hit.
C23_Witness ==
    /\ IsTick
    /\ "H1" \in DOMAIN last_call.colliding
    /\ last_call.colliding["H1"] = {"U1", "U2"}
    /\ \E u \in {"U1", "U2"} : u \notin last_call.active
    /\ HitEvents # {}

(***************************************************************************)
(* The hitboxes of a frame visit.                                          *)
(***************************************************************************)
\* The names a frame lists: its `name` and the entries of its `names`.
NamesOf(f) ==
    (IF f.name # <<>> THEN {f.name[1]} ELSE {})
    \cup (IF f.names # <<>> THEN {f.names[1][i] : i \in DOMAIN f.names[1]} ELSE {})

\* The entities that the names of a frame resolve to in the map of the set.
ResolvedOf(f, hitboxes) == {hitboxes[n] : n \in NamesOf(f) \cap DOMAIN hitboxes}

SeqRange(s) == {s[i] : i \in DOMAIN s}

\* C24: the HitboxDeactivated events that end a frame visit name the same
\* hitboxes as the HitboxActivated events of the visit, namely the entities
\* that the frame's name and names entries resolve to; a name that resolves
\* to nothing gives no event, and a frame none of whose names resolve ends
\* once its delay and duration have elapsed, with Finished when it is the
\* last one, like any other.
C24_SameResolvedHitboxes ==
    (IsProgress /\ PreHasFrame) =>
        /\ SeqRange(HitboxesOfEvents(last_call.events, "HitboxActivated"))
              \subseteq ResolvedOf(PreFrame, PreSet.hitboxes)
        /\ FrameEnds =>
              /\ last_call.closed # <<>>
              /\ PostCursor.frame = PreCursor.frame + 1
              /\ HitboxesOfEvents(last_call.events, "HitboxDeactivated")
                    = last_call.closed[1].activated
              /\ SeqRange(last_call.closed[1].activated) = ResolvedOf(PreFrame, PreSet.hitboxes)
              /\ Emitted(Finished)
                    <=> PreCursor.frame + 1 = Len(PreSet.sequences[PreCursor.name])
        /\ ~FrameEnds =>
              /\ last_call.closed = <<>>
              /\ ~HasEvent(last_call.events, "HitboxDeactivated")

\* The second frame of "swing" ends: of its names "h2" and "ghost" only
\* the first resolves, and H2 alone was activated and is deactivated.
C24_Witness ==
    /\ IsProgress /\ PreHasFrame /\ FrameEnds
    /\ PreCursor.name = "swing" /\ PreCursor.frame = 1
    /\ last_call.closed[1].activated = <<"H2">>
    /\ Emitted(Finished)

\* The frame of "feint", none of whose names resolves, has ended without a
\* hitbox event and the timeline has finished.
FeintEndsWithoutHitboxEvents ==
    /\ IsProgress /\ PreHasFrame /\ FrameEnds
    /\ PreCursor.name = "feint"
    /\ last_call.events = <<Finished>>

(***************************************************************************)
(* One playback under a game loop that keeps ticking.  In the world of     *)
(* InitSeq a timeline is started once, and emd_hitme_system then runs      *)
(* again and again with a delta of at least one unit; the start is never   *)
(* repeated.  The loop calls the system in every update, which the weak    *)
(* fairness of the tick expresses.                                         *)
(***************************************************************************)
StartOnce == last_call = NoCall /\ \E name \in SequenceNames : StartSequence("A", name)

TickForward == last_call # NoCall /\ \E delta \in 1..MaxDelta : Tick(delta, delta)

NextRun == StartOnce \/ TickForward

SpecRun == InitSeq /\ [][NextRun]_vars /\ WF_vars(TickForward)

\* A timeline with at least one frame is being played.
PlayingFrames(id) ==
    /\ Playing(id)
    /\ Len(hitbox_sets[id].sequences[Cursor(id)[1].name]) >= 1

FinishedIn(events) == Cardinality({i \in DOMAIN events : events[i] = Finished})

\* What a tick of the playback does to the cursor: it stays on its frame or
\* moves to the next one without Finished, or it leaves the last frame with
\* exactly one Finished and the set is idle; an idle set emits no Finished.
C25_Step ==
    last_call'.op = "tick" =>
        \A id \in DOMAIN hitbox_sets :
            IF PlayingFrames(id)
            THEN LET c == Cursor(id)[1]
                     count == Len(hitbox_sets[id].sequences[c.name])
                 IN  IF hitbox_sets'[id].active_sequence # <<>>
                     THEN /\ hitbox_sets'[id].active_sequence[1].name = c.name
                          /\ hitbox_sets'[id].active_sequence[1].frame \in {c.frame, c.frame + 1}
                          /\ hitbox_sets'[id].active_sequence[1].frame < count
                          /\ FinishedIn(last_call'.events[id]) = 0
                     ELSE /\ c.frame + 1 = count
                          /\ FinishedIn(last_call'.events[id]) = 1
            ELSE Idle(id) => (FinishedIn(last_call'.events[id]) = 0 /\ hitbox_sets'[id].active_sequence = <<>>)

\* C25: once a timeline with at least one frame is started and the tick
\* driver keeps running with a delta of at least one unit and no further
\* start, the set becomes idle; on the way the cursor visits the frames in
\* index order, one step at a time, and Finished is emitted exactly once, by
\* the tick that leaves the last frame.
C25_PlaybackTerminates ==
    /\ \A id \in {"A"} : PlayingFrames(id) ~> Idle(id)
    /\ [][C25_Step]_vars

\* The tick that ended a started playback: it emitted Finished and left the
\* set idle.
C25_Witness ==
    /\ IsTick
    /\ Idle("A")
    /\ FinishedIn(last_call.events["A"]) = 1
    /\ HasEvent(last_call.events["A"], "HitboxDeactivated")

\* The frame under the cursor of a playing set, if there is one.
CursorHasFrame(id) ==
    HasFrame(hitbox_sets[id].sequences, Cursor(id)[1].name, Cursor(id)[1].frame)
CursorFrame(id) == hitbox_sets[id].sequences[Cursor(id)[1].name][Cursor(id)[1].frame + 1]

\* C26: in a set whose hitboxes start inactive and have no one-shot timer,
\* at every tick boundary a hitbox is active only if the set is playing and
\* the frame under the cursor is marked active and targets the hitbox,
\* whatever the interleaving of ticks and start_sequence calls; so an idle
\* set has no active hitbox.
C26_ActiveOnlyOnActiveFrame ==
    AtTickBoundary =>
        \A id \in DOMAIN hitbox_sets :
            \A n \in DOMAIN hitbox_sets[id].hitboxes :
                hitbox[hitbox_sets[id].hitboxes[n]].active =>
                    /\ Playing(id)
                    /\ CursorHasFrame(id)
                    /\ CursorFrame(id).active
                    /\ hitbox_sets[id].hitboxes[n]
                          \in ResolvedOf(CursorFrame(id), hitbox_sets[id].hitboxes)

\* The hitboxes for which the timelines emitted both HitboxActivated and
\* HitboxDeactivated in the last tick.
ActivatedAndDeactivated == last_call.activated \cap last_call.refreshed

\* C27: a hitbox for which one tick's progress emits both HitboxActivated
\* and HitboxDeactivated is activated first and deactivated (and refreshed)
\* after: when the collision resolution of that tick runs it is inactive and
\* its ledger is empty, it is not queried and no hit event names it.
C27_ActivationBeforeDeactivation ==
    IsTick =>
        \A h \in ActivatedAndDeactivated :
            /\ h \notin last_call.active
            /\ last_call.resolved[h] = EmptyMap
            /\ h \notin DOMAIN last_call.colliding
            /\ CalledAt(h) = {}
            /\ ~hitbox[h].active
            /\ hitbox[h].damaged_entities = EmptyMap

\* H1, active with "B" in its ledger, goes through the whole frame of
\* "swing" in one tick.
C27_Witness ==
    /\ IsTick
    /\ "H1" \in ActivatedAndDeactivated
    /\ last_call.before["H1"].active
    /\ "B" \in DOMAIN last_call.before["H1"].damaged_entities
    /\ last_call.delta > 0

\* The last tick's one-shot timer step deactivated / activated h.
DeactivatedByTimer(h) ==
    /\ last_call.before[h].deactivate_after # <<>>
    /\ last_call.timed[h].deactivate_after = <<>>
TimerActivated(h) ==
    /\ last_call.before[h].activate_after # <<>>
    /\ last_call.timed[h].activate_after = <<>>

\* C28: the one-shot timer step of a tick changes nothing of a hitbox but
\* its active flag, its elapsed time and its two timer fields, and nothing
\* at all of a hitbox without timers; the ledger of a hitbox that a timer
\* deactivates or activates is left as it was, so that after the tick it
\* holds the same owners, decayed by the tick's delta, unless a timeline
\* event of the same tick refreshed it or a hit of the tick added to it.
C28_TimerStepKeepsLedger ==
    IsTick =>
        \A h \in DOMAIN last_call.before :
            /\ last_call.timed[h].damaged_entities = last_call.before[h].damaged_entities
            /\ last_call.timed[h].parent_set = last_call.before[h].parent_set
            /\ last_call.timed[h].cooldown_per_entity = last_call.before[h].cooldown_per_entity
            /\ ~is_one_time(last_call.before[h]) => last_call.timed[h] = last_call.before[h]
            /\ (DeactivatedByTimer(h) /\ h \notin last_call.refreshed) =>
                  /\ last_call.resolved[h] = Decayed(last_call.before[h].damaged_entities,
                                                     last_call.delta)
                  /\ hitbox[h].damaged_entities = last_call.resolved[h]
            /\ (TimerActivated(h) /\ h \notin last_call.refreshed) =>
                  last_call.resolved[h] = Decayed(last_call.before[h].damaged_entities,
                                                  last_call.delta)

\* The deactivate_after timer of H2 fires in a tick with a positive delta
\* while "B" is in the ledger of H2, and "B" is still in it after the tick.
C28_Witness ==
    /\ IsTick
    /\ last_call.delta > 0
    /\ DeactivatedByTimer("H2")
    /\ last_call.before["H2"].active
    /\ ~hitbox["H2"].active
    /\ "B" \in DOMAIN last_call.before["H2"].damaged_entities
    /\ "B" \in DOMAIN hitbox["H2"].damaged_entities

\* C29: in a tick the ledger of a hitbox gets an entry for an owner, or has
\* that owner's entry set back to 0, exactly when an on-hit callback was
\* called in the tick for the hitbox against that owner: the entries of the
\* owners called against are 0 after the dispatch and every other entry is
\* as the resolution found it, present or absent.  With no on-hit callback
\* registered the dispatch makes no step at all (no filter is evaluated) and
\* every ledger is as the resolution found it.
C29_LedgerChangesOnlyByCalls ==
    IsTick =>
        /\ \A h \in DOMAIN hitbox : \A o \in Owners :
              IF o \in HitOwners(h)
              THEN /\ o \in DOMAIN hitbox[h].damaged_entities
                   /\ hitbox[h].damaged_entities[o] = 0
              ELSE /\ o \in DOMAIN hitbox[h].damaged_entities <=> o \in DOMAIN last_call.resolved[h]
                   /\ o \in DOMAIN last_call.resolved[h] =>
                         hitbox[h].damaged_entities[o] = last_call.resolved[h][o]
        /\ config.on_hit_fns = <<>> =>
              /\ \A h \in DOMAIN dispatch : dispatch[h] = <<>>
              /\ \A h \in DOMAIN hitbox : hitbox[h].damaged_entities = last_call.resolved[h]

\* A tick whose callback is called for H1 against "B" when the cooldown of
\* an earlier hit has run out: the entry of "B" is set back to 0.
C29_Witness ==
    /\ IsTick
    /\ HitOwners("H1") = {"B"}
    /\ "B" \in DOMAIN last_call.resolved["H1"]
    /\ last_call.resolved["H1"]["B"] > 0
    /\ hitbox["H1"].damaged_entities["B"] = 0

\* A tick without any on-hit callback in which the physics reports an
\* overlap that nothing excludes.
NoCallbackOverlap ==
    /\ IsTick
    /\ config.on_hit_fns = <<>>
    /\ \E h \in DOMAIN last_call.collisions : last_call.collisions[h] # {}

\* C30: is_current_sequence_finished returns None exactly when the set is
\* idle, and when it returns Some(true) for a set the next progress call on
\* that set, with any delta, emits Finished and neither HitboxActivated nor
\* TagTriggered, whatever the delay of the last frame, in every state that
\* start_sequence and progress_active_sequence lead to.
C30_FinishedMeansEnd ==
    /\ last_call.op = "is_finished" =>
          /\ ~last_call.result.panics
          /\ last_call.result.value = <<>> <=> last_call.before.active_sequence = <<>>
    /\ ( /\ IsProgress
         /\ \E r \in is_current_sequence_finished(PreSet) : ~r.panics /\ r.value = <<TRUE>> )
       => /\ Emitted(Finished)
          /\ ~HasEvent(last_call.events, "HitboxActivated")
          /\ ~HasEvent(last_call.events, "TagTriggered")

(***************************************************************************)
(* A world with two groups and handlers that write to the world.  The      *)
(* HitboxSet on "A" has the hitboxes H1 and H2, the HitboxSet on "B" the   *)
(* hitbox H3; the timeline "swing" of each has one frame with the tag      *)
(* "fx", the timeline "jab" one frame without tags.  The HitboxSet that    *)
(* "B" holds was built by HitboxSet::from_toml for the owner "B" or for    *)
(* the owner "A" (the caller inserts the returned set where it wants).     *)
(* The registered handlers are the reading function 1 and the function 21, *)
(* which starts "jab" on the entity of its context.                        *)
(***************************************************************************)
GroupSet(owner, names, duration, delay, tag_delay) ==
    [hitboxes |-> names,
     owner |-> owner,
     sequences |->
        [n \in {"swing", "jab"} |->
            IF n = "swing"
            THEN <<Frame(duration, delay, <<"h1">>, <<>>, <<Tag("fx", tag_delay, FALSE)>>, FALSE)>>
            ELSE <<Frame(1, 0, <<"h2">>, <<>>, <<>>, FALSE)>>],
     active_sequence |-> <<>>]

HandlerLists == {<<>>, <<21>>, <<1, 21>>, <<21, 1>>}

InitGroups ==
    /\ \E owner \in {"A", "B"}, duration \in {0, MaxDuration}, tag_delay \in 0..MaxTagDelay :
          /\ hitbox_sets =
                [id \in {"A", "B"} |->
                    IF id = "A"
                    THEN GroupSet("A", [n \in {"h1", "h2"} |-> IF n = "h1" THEN "H1" ELSE "H2"],
                                  duration, 0, tag_delay)
                    ELSE GroupSet(owner, [n \in {"h1"} |-> "H3"], 1, 0, 0)]
          /\ hitbox = [id \in {"H1", "H2", "H3"} |->
                         NewHitbox(IF id = "H3" THEN owner ELSE "A", FALSE, <<>>, <<>>,
                                   DefaultCooldown)]
    /\ hurtbox_sets = EmptyMap
    /\ hurtbox = EmptyMap
    /\ \E handlers \in HandlerLists, named \in {EmptyMap, [t \in {"fx"} |-> 21]} :
          config = [on_hit_fns |-> <<>>, hit_filter_fns |-> <<>>,
                    tag_handlers |-> handlers, tag_handlers_by_name |-> named]
    /\ last_call = NoCall
    /\ visit = [id \in {"A", "B"} |-> NoVisit]
    /\ dispatch = EmptyMap
    /\ since_hit = [id \in {"H1", "H2", "H3"} |-> EmptyMap]
    /\ tracker = Trackers(hitbox, hurtbox)

\* emd_hitme_system with handlers that write to the world: as TickWith, with
\* the HitboxSets as the handlers left them; the history keeps the
\* HitboxSets before the tick and what each handler call saw.
TickCallingWith(delta, delta_e, sys, set_order, colliding, collisions, rejected, d) ==
    LET refreshed == UNION {EventHitboxes(sys.events[id], "HitboxDeactivated") :
                              id \in DOMAIN hitbox_sets}
        since == SinceAfterSystem(delta, refreshed)
        gone == to_destroy(tracker, EntitiesOf(sys.hitbox_sets, d.hitbox, hurtbox_sets, hurtbox))
    IN  /\ hitbox' = despawned(d.hitbox, gone)
        /\ hurtbox' = despawned(hurtbox, gone)
        /\ tracker' = despawned(tracker, gone)
        /\ hitbox_sets' = sys.hitbox_sets
        /\ dispatch' = d.log
        /\ since_hit' = despawned(SinceAfterDispatch(since, d.log), gone)
        /\ last_call' = [op |-> "tick", colliding |-> colliding, rejected |-> rejected,
                         collisions |-> collisions, refreshed |-> refreshed,
                         delta |-> delta, delta_e |-> delta_e, events |-> sys.events,
                         before |-> hitbox, sets_before |-> hitbox_sets,
                         timed |-> hitbox_one_time_system(hitbox, delta_e),
                         seen |-> sys.seen,
                         activated |-> UNION {EventHitboxes(sys.events[id], "HitboxActivated") :
                                                id \in DOMAIN hitbox_sets},
                         tag_calls |-> tag_handler_calls(config,
                                                         tag_triggers(sys.events, set_order))]
        /\ UNCHANGED <<hurtbox_sets, config, visit>>

TickCalling(delta, delta_e) ==
    /\ TickInBounds(delta, delta_e)
    /\ \E set_order \in Perms(DOMAIN hitbox_sets) :
       \E sys \in {hitbox_system_calling(hitbox, hitbox_sets, config, delta, delta_e,
                                         set_order)} :
       \E colliding \in [get_all_active_hitboxes(sys.hitbox) -> SUBSET DOMAIN hurtbox] :
          /\ ~collisions_unwrap_panics(sys.hitbox, sys.hitbox_sets, hurtbox, hurtbox_sets,
                                       colliding)
          /\ \E collisions \in {get_active_hitbox_to_active_hurtbox_collisions(
                                  sys.hitbox, sys.hitbox_sets, hurtbox, hurtbox_sets, colliding)} :
             \E rejected \in RejectionsOf(collisions), orders \in OrdersOf(collisions) :
             \E d \in {dispatch_collisions(sys.hitbox, sys.hitbox_sets, hurtbox, hurtbox_sets,
                                           config, rejected, orders)} :
                TickCallingWith(delta, delta_e, sys, set_order, colliding, collisions,
                                rejected, d)

NextGroups ==
    \/ \E delta \in 0..MaxTickDelta : TickCalling(delta, delta)
    \/ \E id \in DOMAIN hitbox_sets, name \in {"swing", "jab"} : StartSequence(id, name)

SpecGroups == InitGroups /\ [][NextGroups]_vars

\* The hitboxes that were active when the timeline step of the last tick
\* began, that is after the one-shot timers of the tick.
StepStartActive == {h \in DOMAIN last_call.timed : last_call.timed[h].active}

\* The last handler call of the last tick that started a timeline on g.
StartsOn(g) ==
    {i \in DOMAIN last_call.seen :
        /\ last_call.seen[i].call.f \in DOMAIN StartedBy
        /\ last_call.seen[i].call.hitbox_set_owner = g}

\* C31: in the timeline step of a tick every handler call sees the hitbox
\* active flags as they were when the step began and sees every group whose
\* timeline was playing already advanced by the tick's delta; after the
\* tick the Activated and Deactivated events that the timelines emitted
\* before the handlers ran are applied to the flags (a deactivated hitbox
\* is inactive with an empty ledger, an activated one is active, every
\* other keeps its flag), also for a group on which a handler started
\* another timeline, and that timeline is the group's cursor.
C31_HandlersBetweenAdvanceAndApply ==
    IsTick =>
        /\ \A i \in DOMAIN last_call.seen :
              /\ last_call.seen[i].active = StepStartActive
              /\ \A g \in DOMAIN last_call.sets_before :
                    (last_call.sets_before[g].active_sequence # <<>> /\ last_call.delta_e > 0)
                       => last_call.seen[i].hitbox_sets[g] # last_call.sets_before[g]
        /\ \A h \in DOMAIN hitbox :
              /\ hitbox[h].active = IF h \in last_call.refreshed THEN FALSE
                                    ELSE IF h \in last_call.activated THEN TRUE
                                    ELSE h \in StepStartActive
              /\ h \in last_call.refreshed => hitbox[h].damaged_entities = EmptyMap
        /\ \A g \in DOMAIN hitbox_sets :
              StartsOn(g) # {} =>
                 hitbox_sets[g].active_sequence = <<NewActiveSequenceData("jab")>>

\* A tick in which both groups advance, the timeline of "A" activates H1 and
\* triggers its tag, the function 21 called for the tag starts "jab" on "A"
\* while H1 is still inactive, and H1 is active after the tick.
C31_Witness ==
    /\ IsTick
    /\ last_call.sets_before["B"].active_sequence # <<>>
    /\ last_call.delta_e > 0
    /\ "H1" \in last_call.activated
    /\ \E i \in StartsOn("A") : "H1" \notin last_call.seen[i].active
    /\ hitbox["H1"].active
    /\ hitbox_sets["A"].active_sequence = <<NewActiveSequenceData("jab")>>

\* The boxes whose follow target is no entity of the world.
Orphans ==
    to_destroy(tracker, EntitiesOf(hitbox_sets, hitbox, hurtbox_sets, hurtbox))

\* The boxes of the on-hit calls of the tick that a step ends.
HittingAfter ==
    UNION {{h} \cup {dispatch'[h][i].hurtbox : i \in {j \in DOMAIN dispatch'[h] :
                                                       dispatch'[h][j].called}} :
             h \in {g \in DOMAIN dispatch' : \E j \in DOMAIN dispatch'[g] :
                                                dispatch'[g][j].called}}

\* What a run of emd_hitme_system that reaches its end does with the boxes:
\* those whose target is gone are despawned and make no hit, the others stay.
C32_CompletedTick ==
    last_call'.op = "tick" =>
        /\ \A id \in Orphans : id \notin DOMAIN hitbox' \cup DOMAIN hurtbox'
        /\ \A id \in DOMAIN tracker \ Orphans : id \in DOMAIN hitbox' \cup DOMAIN hurtbox'
        /\ HittingAfter \cap Orphans = {}
        /\ DOMAIN tracker' = DOMAIN hitbox' \cup DOMAIN hurtbox'

C32_CompletedTickDespawnsOrphans == [][C32_CompletedTick]_vars

\* C32: every run of emd_hitme_system despawns the hitbox and hurtbox
\* entities whose follow target no longer exists, so that after the tick
\* that follows the destruction of an owner none of its boxes is left, no
\* such box takes part in a hit, and every box whose target exists stays.
C32_Tick ==
    last_call'.op \in {"tick", "panic"} =>
        /\ \A id \in Orphans : id \notin DOMAIN hitbox' \cup DOMAIN hurtbox'
        /\ \A id \in DOMAIN tracker \ Orphans : id \in DOMAIN hitbox' \cup DOMAIN hurtbox'
        /\ HittingAfter \cap Orphans = {}

C32_OrphansGoneWithinOneTick == [][C32_Tick]_vars

\* The TagTriggered events that the timeline of the group on g emitted in
\* the last tick.
TagsOf(g) == SelectSeq(last_call.events[g], IsTagEvent)

\* The handler calls of the last tick that carry the triple.
CallsWith(tag, owner, data) ==
    {i \in DOMAIN last_call.tag_calls :
        /\ last_call.tag_calls[i].tag = tag
        /\ last_call.tag_calls[i].hitbox_set_owner = owner
        /\ last_call.tag_calls[i].data = data}

\* C33: the context of every handler call for a TagTriggered event carries
\* the tag's name, the tag's payload and, as hitbox_set_owner, the owner
\* field of the group whose timeline emitted the tag, also when the owner
\* field is not the entity that holds the group; every handler of the tag is
\* called with that context and no call carries anything else.
C33_ContextCarriesOwnerField ==
    IsTick =>
        /\ \A g \in DOMAIN last_call.sets_before : \A j \in DOMAIN TagsOf(g) :
              Cardinality(CallsWith(TagsOf(g)[j].name, last_call.sets_before[g].owner,
                                    TagsOf(g)[j].data))
                 >= Len(handlers_of_tag(config, TagsOf(g)[j].name))
        /\ \A i \in DOMAIN last_call.tag_calls :
              \E g \in DOMAIN last_call.sets_before : \E j \in DOMAIN TagsOf(g) :
                 i \in CallsWith(TagsOf(g)[j].name, last_call.sets_before[g].owner,
                                 TagsOf(g)[j].data)

====
